---------------------------- MODULE Spec2Model ----------------------------
(***************************************************************************)
(* Model of node-logger-simple's rate limiter (lib/RateLimiter.js), error  *)
(* handler (lib/ErrorHandler.js) and rate-limited Logger facade            *)
(* (lib/Logger.js).                                                        *)
(*                                                                         *)
(* Token arithmetic.  The code keeps `tokens` as a floating-point number   *)
(* and refills it by timePassed * (maxRequests / 3600000).  The model      *)
(* keeps the same quantity exactly, as an integer count of 1/3600000ths of *)
(* a token ("token units"): one whole token is HourMs units and a refill   *)
(* over timePassed milliseconds adds timePassed * maxRequests units.       *)
(*                                                                         *)
(* Async calls.  Each chain of awaiting async functions is a stack of      *)
(* frames; a step runs the top frame from one await to the next.  Timers,  *)
(* I/O completions and the clock advance only when no continuation is      *)
(* queued, as in the Node.js event loop.                                   *)
(*                                                                         *)
(* process.exit is recorded in `exits` and execution goes on, as under a   *)
(* stubbed process.exit; a real run is a prefix up to the first entry.     *)
(***************************************************************************)
EXTENDS Integers, Sequences, FiniteSets, TLC

\* ------------------------------------------------------------------------
\* Program constants
\* ------------------------------------------------------------------------
HourMs == 3600000
CleanupIntervalMs == 600000
KeepHours == 24
DefaultMaxRequests == 1000
MinDefaultBurst == 10

\* ------------------------------------------------------------------------
\* Bounds of the model
\* ------------------------------------------------------------------------
\* clock advances
MaxTicks == 2
\* checkRequest calls made on the rate limiter driven directly
MaxCalls == 3
\* budget of application calls on the logger and the error handler (see OpCost)
MaxOps == 5
\* frames of one async call chain
MaxDepth == 5
\* log() calls made on the simple API logger
MaxApiCalls == 2
\* add() calls made on the batch logger
MaxBatchAdds == 4
\* queueLog() calls made on the event-emitter Logger
MaxQueued == 3
\* makeRequest() calls made on the ApiClient
MaxRequests == 1
\* log entries created on the batching Logger
MaxEntries == 4

\* ------------------------------------------------------------------------
\* Small helpers
\* ------------------------------------------------------------------------
Min(a, b) == IF a <= b THEN a ELSE b

\* Math.floor(a / b) and Math.ceil(a / b) for an integer a and b > 0
FloorDiv(a, b) == IF a >= 0 THEN a \div b ELSE -((-a + b - 1) \div b)
CeilDiv(a, b) == -FloorDiv(-a, b)

\* Map.get(k) || 0 on a Map modelled as a function with a finite domain
MapGet(m, k) == IF k \in DOMAIN m THEN m[k] ELSE 0
\* Map.set(k, v)
MapSet(m, k, v) == [x \in DOMAIN m \cup {k} |-> IF x = k THEN v ELSE m[x]]
\* the empty Map
EmptyMap == [x \in {} |-> 0]

\* "no value" for an optional number (undefined / null)
None == 0 - 1

VARIABLES
  now,            \* Date.now(), in milliseconds
  ticks,          \* number of clock advances so far (bounded by MaxTicks)
  rateLimiter,    \* the RateLimiter object
  rlResult,       \* what the last RateLimiter call returned or threw
  rlAdmitted,     \* history: hour bucket -> checkRequest calls the enabled limiter admitted since construction / reset()
  rlRun,          \* history: the current run of checkRequest(1) calls made at one instant
  rlStatus,       \* history: the last getStatus() report and, right after a second one, the pair
  rlCalls,        \* history: number of checkRequest calls since construction / reset()
  rlWarnings,     \* history: number of times _checkWarningThreshold returned true since construction / reset() / updateConfig()
  rlShadow,       \* history: the RateLimiter as it would be had getStatus() and calculateOptimalTiming() never been called
  config,         \* the Logger's normalized configuration (shared with its ErrorHandler)
  hooks,          \* the process listeners this ErrorHandler has registered
  errorHandler,   \* the ErrorHandler object
  logger,         \* the Logger object: initialization state and client statistics
  timers,         \* pending setTimeout callbacks that call process.exit
  nextTimer,      \* the handle the next setTimeout returns
  exits,          \* the process.exit calls made so far, in order
  chains,         \* the async call chains in progress: chain -> stack of frames
  ops,            \* number of calls made from outside so far (bounded by MaxOps)
  ehReturn,       \* what the last step decided (see NoReturn)
  critHist,       \* history: the times of all _trackCriticalError calls
  exitCalls,      \* history: number of _scheduleExit / _forceExit calls made, counted up to 2
  everCancelled,  \* history: cancelShutdown() or cleanup() was called
  apiLogger,      \* the simple API logger (lib/Logger.js) and its log() calls in progress
  batchLogger,    \* the closure of one createBatchLogger() call and its timers
  emitterLogger,  \* the event-emitter Logger (App.js), its queue, requests and shutdown
  apiClient,      \* the options a Logger was constructed with, its normalized config and its ApiClient's request
  queueLogger     \* the batching Logger (App.js), its queue, flush cycles and shutdown

rlVars == <<rateLimiter, rlResult, rlAdmitted, rlRun, rlStatus, rlCalls, rlWarnings,
           rlShadow>>
ehVars == <<config, hooks, errorHandler, logger, timers, nextTimer, exits, chains, ops,
            ehReturn, critHist, exitCalls, everCancelled>>
libVars == <<apiLogger, batchLogger, emitterLogger, apiClient, queueLogger>>

\* ------------------------------------------------------------------------
\* RateLimiter
\* ------------------------------------------------------------------------

EmptyStats == [totalRequests |-> 0, blockedRequests |-> 0,
               lastBlockedAt |-> None, hourlyPeaks |-> EmptyMap]

\* constructor(options): options.maxRequests / options.burstSize = None when not given
RateLimiterNew(optMaxRequests, optBurstSize, optEnabled, t) ==
  LET mr == IF optMaxRequests \in {None, 0} THEN DefaultMaxRequests ELSE optMaxRequests
      bs == IF optBurstSize \in {None, 0}
            THEN \* Math.max(10, Math.floor(maxRequests / 10))
                 IF MinDefaultBurst >= FloorDiv(mr, 10) THEN MinDefaultBurst ELSE FloorDiv(mr, 10)
            ELSE optBurstSize
  IN [maxRequests |-> mr,
      burstSize |-> bs,
      enabled |-> optEnabled,
      tokens |-> bs * HourMs,
      lastRefill |-> t,
      requestCounts |-> EmptyMap,
      lastCleanup |-> t,
      hasWarned |-> FALSE,
      stats |-> EmptyStats]

\* mutant of _refillTokens: the refill is not capped at burstSize
Mutant_refillTokens(rl, t) ==
  [rl EXCEPT !.tokens = rl.tokens + (t - rl.lastRefill) * rl.maxRequests,
             !.lastRefill = t]

\* _refillTokens(now): tokens = min(burstSize, tokens + timePassed * refillRate)
_refillTokens(rl, t) ==
  LET timePassed == t - rl.lastRefill
      tokensToAdd == timePassed * rl.maxRequests
  IN [rl EXCEPT !.tokens = Min(rl.burstSize * HourMs, rl.tokens + tokensToAdd),
                !.lastRefill = t]

\* _cleanupOldCounts(now)
_cleanupOldCounts(rl, t) ==
  IF t - rl.lastCleanup < CleanupIntervalMs
  THEN rl
  ELSE LET currentHour == t \div HourMs
           cutoffHour == currentHour - KeepHours
           keep(m) == [h \in {x \in DOMAIN m : ~(x < cutoffHour)} |-> m[h]]
       IN [rl EXCEPT !.requestCounts = keep(rl.requestCounts),
                     !.stats.hourlyPeaks = keep(rl.stats.hourlyPeaks),
                     !.lastCleanup = t]

\* mutant of ShouldWarn: the flag is not consulted
Mutant_ShouldWarn(rl, currentCount) == 10 * currentCount >= 8 * rl.maxRequests

\* the value _checkWarningThreshold(currentCount) returns:
\* !this.hasWarned && currentCount >= this.maxRequests * this.warningThreshold
ShouldWarn(rl, currentCount) ==
  ~rl.hasWarned /\ 10 * currentCount >= 8 * rl.maxRequests

\* _checkWarningThreshold(currentCount): the limiter afterwards
_checkWarningThreshold(rl, currentCount) ==
  IF ShouldWarn(rl, currentCount)
  THEN [rl EXCEPT !.hasWarned = TRUE]
  ELSE rl

NoError == [kind |-> "none", limit |-> None, remaining |-> None, resetTime |-> None]

\* mutant of HourlyLimitReached: off by one (> for >=)
Mutant_HourlyLimitReached(currentHourCount, maxRequests) == currentHourCount > maxRequests

\* the hourly-cap test of checkRequest
HourlyLimitReached(currentHourCount, maxRequests) == currentHourCount >= maxRequests

\* mutant of BurstLimitReached: exactly `cost` tokens is rejected (<= for <)
Mutant_BurstLimitReached(tokens, cost) == tokens <= cost * HourMs

\* the burst (token bucket) test of checkRequest; cost in whole tokens
BurstLimitReached(tokens, cost) == tokens < cost * HourMs

\* mutant of BypassLimiter: the request a disabled limiter lets through is not counted
Mutant_BypassLimiter(rl) == rl

\* checkRequest with limiting disabled: this.stats.totalRequests++
BypassLimiter(rl) == [rl EXCEPT !.stats.totalRequests = @ + 1]

\* mutant of Blocked: the rejected request is retried once and counted twice
Mutant_Blocked(rl, t) ==
  [rl EXCEPT !.stats.blockedRequests = @ + 2, !.stats.lastBlockedAt = t]

\* the bookkeeping of a rejection: this.stats.blockedRequests++ and
\* this.stats.lastBlockedAt = now
Blocked(rl, t) ==
  [rl EXCEPT !.stats.blockedRequests = @ + 1, !.stats.lastBlockedAt = t]

\* checkRequest(cost): the limiter afterwards, the outcome, and whether its
\* _checkWarningThreshold call returned true
\* (outcome "ok" = returned true; "hourly" / "burst" = threw that RateLimitError)
checkRequest(rl, t, cost) ==
  IF ~rl.enabled
  THEN [rl |-> BypassLimiter(rl), outcome |-> "ok", error |-> NoError, warned |-> FALSE]
  ELSE
    LET r1 == _cleanupOldCounts(_refillTokens(rl, t), t)
        currentHour == t \div HourMs
        currentHourCount == MapGet(r1.requestCounts, currentHour)
        blocked == Blocked(r1, t)
    IN IF HourlyLimitReached(currentHourCount, r1.maxRequests)
       THEN [rl |-> blocked, outcome |-> "hourly", warned |-> FALSE,
             error |-> [kind |-> "hourly",
                        limit |-> r1.maxRequests,
                        remaining |-> r1.maxRequests - currentHourCount,
                        resetTime |-> ((t \div HourMs) + 1) * HourMs]]
       ELSE IF BurstLimitReached(r1.tokens, cost)
       THEN [rl |-> blocked, outcome |-> "burst", warned |-> FALSE,
             error |-> [kind |-> "burst",
                        limit |-> r1.burstSize,
                        remaining |-> FloorDiv(r1.tokens, HourMs),
                        resetTime |-> t + FloorDiv(cost * HourMs - r1.tokens, r1.maxRequests)]]
       ELSE
         LET currentPeak == MapGet(r1.stats.hourlyPeaks, currentHour)
             r2 == [r1 EXCEPT !.tokens = @ - cost * HourMs,
                              !.requestCounts = MapSet(@, currentHour, currentHourCount + 1),
                              !.stats.totalRequests = @ + 1,
                              !.stats.hourlyPeaks =
                                 IF currentHourCount + 1 > currentPeak
                                 THEN MapSet(@, currentHour, currentHourCount + 1)
                                 ELSE @]
         IN [rl |-> _checkWarningThreshold(r2, currentHourCount + 1),
             warned |-> ShouldWarn(r2, currentHourCount + 1),
             outcome |-> "ok", error |-> NoError]

\* mutant of availableTokens: a started token counts as a whole one
Mutant_AvailableTokens(tokens) == CeilDiv(tokens, HourMs)

\* availableTokens as getStatus reports it: Math.floor(this.tokens)
AvailableTokens(tokens) == FloorDiv(tokens, HourMs)

\* getStatus(): the limiter afterwards (refilled) and the report
getStatus(rl, t) ==
  LET r1 == _refillTokens(rl, t)
      currentHour == t \div HourMs
      currentHourCount == MapGet(r1.requestCounts, currentHour)
  IN [rl |-> r1,
      status |-> [enabled |-> r1.enabled,
                  maxRequestsPerHour |-> r1.maxRequests,
                  burstSize |-> r1.burstSize,
                  currentHourRequests |-> currentHourCount,
                  remainingRequests |-> r1.maxRequests - currentHourCount,
                  availableTokens |-> AvailableTokens(r1.tokens),
                  resetTime |-> (currentHour + 1) * HourMs]]

\* reset()
reset(rl, t) ==
  [rl EXCEPT !.tokens = rl.burstSize * HourMs,
             !.lastRefill = t,
             !.requestCounts = EmptyMap,
             !.hasWarned = FALSE,
             !.stats = EmptyStats]

\* mutant of ClampTokens: the bucket is not clamped to the new capacity
Mutant_ClampTokens(tokens, burstSize) == tokens

\* the clamp of updateConfig: this.tokens = Math.min(this.tokens, this.burstSize)
ClampTokens(tokens, burstSize) == Min(tokens, burstSize * HourMs)

\* updateConfig(options): each option is None when not given; optEnabled is
\* "unset", "true" or "false"
updateConfig(rl, optMaxRequests, optBurstSize, optEnabled) ==
  LET r1 == IF optMaxRequests # None
            THEN [rl EXCEPT !.maxRequests = optMaxRequests] ELSE rl
      r2 == IF optBurstSize # None
            THEN [r1 EXCEPT !.burstSize = optBurstSize,
                            !.tokens = ClampTokens(r1.tokens, optBurstSize)]
            ELSE r1
      r3 == IF optEnabled # "unset"
            THEN [r2 EXCEPT !.enabled = (optEnabled = "true")] ELSE r2
  IN [r3 EXCEPT !.hasWarned = FALSE]

\* a non-finite number (division by zero), and the NaN that Infinity * 0 gives
Infinity == 0 - 999999
NaN == 0 - 999998

\* mutant of OptimalBatchSize: no buffer is left
Mutant_OptimalBatchSize(safeRequestsRemaining) == safeRequestsRemaining

\* Math.floor(safeRequestsRemaining * 0.8)
OptimalBatchSize(safeRequestsRemaining) == FloorDiv(safeRequestsRemaining * 8, 10)

\* calculateOptimalTiming(requestCount)
calculateOptimalTiming(rl, t, requestCount) ==
  LET gs == getStatus(rl, t)
      status == gs.status
      safeRequestsRemaining == Min(status.remainingRequests, status.availableTokens)
      optimalBatchSize == OptimalBatchSize(safeRequestsRemaining)
      batches == IF optimalBatchSize = 0 THEN Infinity
                 ELSE IF optimalBatchSize > 0 THEN CeilDiv(requestCount, optimalBatchSize)
                 ELSE -FloorDiv(requestCount, -optimalBatchSize)
      delayBetweenBatches == CeilDiv(optimalBatchSize * HourMs, gs.rl.maxRequests)
      totalTime == IF batches = Infinity
                   THEN (IF delayBetweenBatches = 0 THEN NaN ELSE Infinity)
                   ELSE batches * delayBetweenBatches
  IN [rl |-> gs.rl,
      timing |-> IF requestCount <= safeRequestsRemaining
                 THEN [canProceed |-> TRUE, delay |-> 0, batchSize |-> requestCount,
                       batches |-> None, totalTime |-> None]
                 ELSE [canProceed |-> FALSE, delay |-> delayBetweenBatches,
                       batchSize |-> optimalBatchSize, batches |-> batches,
                       totalTime |-> totalTime]]

\* ------------------------------------------------------------------------
\* Error classes (lib/errors.js)
\* ------------------------------------------------------------------------

\* an error value: its class, its code and, for a ShutdownError, its exitCode
NoErr == [cls |-> "none", code |-> "none", exitCode |-> None]
ApplicationErr == [cls |-> "ApplicationError", code |-> "APPLICATION_ERROR", exitCode |-> None]
AuthenticationErr == [cls |-> "AuthenticationError", code |-> "AUTHENTICATION_ERROR", exitCode |-> None]
RateLimitErr == [cls |-> "RateLimitError", code |-> "RATE_LIMIT_ERROR", exitCode |-> None]
ValidationErr == [cls |-> "ValidationError", code |-> "VALIDATION_ERROR", exitCode |-> None]
NetworkErr == [cls |-> "NetworkError", code |-> "NETWORK_ERROR", exitCode |-> None]
ShutdownErr(exitCode) == [cls |-> "ShutdownError", code |-> "SHUTDOWN_ERROR", exitCode |-> exitCode]
\* new LoggerError(message, code)
LoggerErr(code) == [cls |-> "LoggerError", code |-> code, exitCode |-> None]

\* ------------------------------------------------------------------------
\* ErrorHandler
\* ------------------------------------------------------------------------
MaxCriticalErrors == 5
CriticalErrorWindow == 60000
ShutdownDelayMs == 2000

\* constructor(logger, config)
ErrorHandlerNew == [isShuttingDown |-> FALSE,
                    shutdownTimeout |-> None,
                    criticalErrorCount |-> 0,
                    criticalErrorTimes |-> <<>>]

\* a registered process listener: the event and the function registered for it
Listener(event, fn) == [event |-> event, listener |-> fn]

\* setupGlobalErrorHandlers(): the exception hooks get the bound methods, the
\* signal hooks get arrow functions that call handleShutdownSignal
setupGlobalErrorHandlers ==
  {Listener("uncaughtException", "handleUncaughtException"),
   Listener("unhandledRejection", "handleUnhandledRejection"),
   Listener("SIGTERM", "() => handleShutdownSignal"),
   Listener("SIGINT", "() => handleShutdownSignal")}

\* process.removeListener(event, fn): removes the listener that is this function
RemoveListener(hs, event, fn) == hs \ {Listener(event, fn)}

\* cleanup(): the four removeListener calls
cleanupListeners(hs) ==
  RemoveListener(
    RemoveListener(
      RemoveListener(
        RemoveListener(hs, "uncaughtException", "handleUncaughtException"),
        "unhandledRejection", "handleUnhandledRejection"),
      "SIGTERM", "handleShutdownSignal"),
    "SIGINT", "handleShutdownSignal")

\* the handler method an event reaches through its registered listener
HookMethod(event) ==
  IF event = "uncaughtException" THEN "handleUncaughtException"
  ELSE IF event = "unhandledRejection" THEN "handleUnhandledRejection"
  ELSE "handleShutdownSignal"

\* the log each hook attempts first: <<level, exitOnCritical argument>>
HookLog(fn) ==
  IF fn = "handleShutdownSignal" THEN <<"info", "null">> ELSE <<"critical", "false">>

\* the exit call each hook makes once its log has settled
HookCall(fn, cfg) ==
  IF fn = "handleUncaughtException" THEN [fn |-> "_forceExit", code |-> 1]
  ELSE IF fn = "handleUnhandledRejection"
       THEN (IF cfg.exitOnCritical THEN [fn |-> "_scheduleExit", code |-> 1]
             ELSE [fn |-> "none", code |-> None])
  ELSE [fn |-> "_scheduleExit", code |-> 0]

HookMethods == {"handleUncaughtException", "handleUnhandledRejection", "handleShutdownSignal"}

\* process.exit(code), called by `by`; recorded, as with a stubbed process.exit
ProcessExit(sys, code, by) ==
  [sys EXCEPT !.exits = Append(@, [code |-> code, by |-> by])]

\* setTimeout(() => process.exit(code), delay)
SetExitTimer(sys, code, delay, t, by) ==
  [sys EXCEPT !.timers = @ \cup {[id |-> sys.nextTimer, due |-> t + delay,
                                  code |-> code, by |-> by]},
              !.nextTimer = @ + 1]

\* clearTimeout(handle)
ClearTimeout(sys, handle) ==
  [sys EXCEPT !.timers = {tm \in @ : tm.id # handle}]

\* mutant of _scheduleExit: the isShuttingDown guard is missing
Mutant_scheduleExit(sys, exitCode, t) ==
  LET armed == SetExitTimer(sys, exitCode, ShutdownDelayMs, t, "errorHandler")
  IN [armed EXCEPT !.eh.isShuttingDown = TRUE,
                   !.eh.shutdownTimeout = sys.nextTimer]

\* _scheduleExit(exitCode, reason)
_scheduleExit(sys, exitCode, t) ==
  IF sys.eh.isShuttingDown
  THEN sys
  ELSE LET armed == SetExitTimer(sys, exitCode, ShutdownDelayMs, t, "errorHandler")
       IN [armed EXCEPT !.eh.isShuttingDown = TRUE,
                        !.eh.shutdownTimeout = sys.nextTimer]

\* _forceExit(exitCode, reason)
_forceExit(sys, exitCode) ==
  IF sys.eh.isShuttingDown
  THEN sys
  ELSE LET s1 == [sys EXCEPT !.eh.isShuttingDown = TRUE]
           s2 == IF s1.eh.shutdownTimeout # None
                 THEN ClearTimeout(s1, s1.eh.shutdownTimeout) ELSE s1
       IN ProcessExit(s2, exitCode, "errorHandler")

\* cancelShutdown()
cancelShutdown(sys) ==
  LET s1 == IF sys.eh.shutdownTimeout # None
            THEN [ClearTimeout(sys, sys.eh.shutdownTimeout)
                    EXCEPT !.eh.shutdownTimeout = None]
            ELSE sys
  IN [s1 EXCEPT !.eh.isShuttingDown = FALSE]

\* cleanup(): the timer and flag part
cleanup(sys) ==
  LET s1 == IF sys.eh.shutdownTimeout # None
            THEN [ClearTimeout(sys, sys.eh.shutdownTimeout)
                    EXCEPT !.eh.shutdownTimeout = None]
            ELSE sys
  IN [s1 EXCEPT !.eh.isShuttingDown = FALSE]

\* _isCriticalError(error)
_isCriticalError(error) ==
  \/ error.cls \in {"ApplicationError", "AuthenticationError", "ShutdownError"}
  \/ error.code \in {"CRITICAL_ERROR", "FATAL_ERROR"}

\* mutant of the window test: an error exactly one window old is kept
Mutant_InCriticalWindow(t, time) == t - time <= CriticalErrorWindow

\* the window test of _trackCriticalError: now - time < this.criticalErrorWindow
InCriticalWindow(t, time) == t - time < CriticalErrorWindow

\* mutant of _trackCriticalError: the count is taken before the filter
Mutant_trackCriticalError(eh, t) ==
  LET pushed == Append(eh.criticalErrorTimes, t)
      kept == SelectSeq(pushed, LAMBDA time : InCriticalWindow(t, time))
  IN [eh EXCEPT !.criticalErrorTimes = kept,
                !.criticalErrorCount = Len(pushed)]

\* _trackCriticalError()
_trackCriticalError(eh, t) ==
  LET pushed == Append(eh.criticalErrorTimes, t)
      kept == SelectSeq(pushed, LAMBDA time : InCriticalWindow(t, time))
  IN [eh EXCEPT !.criticalErrorTimes = kept,
                !.criticalErrorCount = Len(kept)]

\* mutant of _shouldExitOnCriticalErrors: the threshold itself is tolerated
Mutant_shouldExitOnCriticalErrors(eh) == eh.criticalErrorCount > MaxCriticalErrors

\* _shouldExitOnCriticalErrors()
_shouldExitOnCriticalErrors(eh) == eh.criticalErrorCount >= MaxCriticalErrors

\* a call of _forceExit / _scheduleExit made by a handler branch
NoCall == [fn |-> "none", code |-> None]
ForceExitCall(code) == [fn |-> "_forceExit", code |-> code]
ScheduleExitCall(code) == [fn |-> "_scheduleExit", code |-> code]

\* the branch of handleError's instanceof chain that takes the error
Classify(error) ==
  IF error.cls = "ApplicationError" THEN "application"
  ELSE IF error.cls = "AuthenticationError" THEN "authentication"
  ELSE IF error.cls = "RateLimitError" THEN "rateLimit"
  ELSE IF error.cls = "ShutdownError" THEN "shutdown"
  ELSE IF error.cls \notin {"Error", "TypeError", "none", "null"} THEN "logger"  \* instanceof LoggerError
  ELSE "generic"







Verdict(branch, error, cfg) ==
  IF branch = "application" THEN [call |-> ForceExitCall(1), continues |-> FALSE]
  ELSE IF branch = "authentication"
       THEN IF cfg.exitOnAuthError # "false"
            THEN [call |-> ScheduleExitCall(1), continues |-> FALSE]
            ELSE [call |-> NoCall, continues |-> TRUE]
  ELSE IF branch = "rateLimit" THEN [call |-> NoCall, continues |-> TRUE]
  ELSE IF branch = "shutdown"
       THEN \* this._forceExit(error.exitCode || 1, ...)
            [call |-> ForceExitCall(IF error.exitCode \in {None, 0} THEN 1 ELSE error.exitCode),
             continues |-> FALSE]
  ELSE [call |-> NoCall, continues |-> TRUE]

\* the exit call made on the system
ApplyCall(sys, call, t) ==
  IF call.fn = "_forceExit" THEN _forceExit(sys, call.code)
  ELSE IF call.fn = "_scheduleExit" THEN _scheduleExit(sys, call.code, t)
  ELSE sys

\* _handleLoggerError(error, errorInfo): no secondary log; the system
\* afterwards, the exit call made and the value returned
_handleLoggerError(sys, error, t) ==
  IF _isCriticalError(error)
  THEN LET tracked == [sys EXCEPT !.eh = _trackCriticalError(sys.eh, t)]
       IN IF _shouldExitOnCriticalErrors(tracked.eh)
          THEN [sys |-> _scheduleExit(tracked, 1, t),
                call |-> ScheduleExitCall(1), continues |-> FALSE, tracked |-> TRUE]
          ELSE [sys |-> tracked, call |-> NoCall, continues |-> TRUE, tracked |-> TRUE]
  ELSE [sys |-> sys, call |-> NoCall, continues |-> TRUE, tracked |-> FALSE]

\* ------------------------------------------------------------------------
\* Logger (the rate-limited facade)
\* ------------------------------------------------------------------------
CriticalExitDelayMs == 1000
MinLogsPerHour == 100

\* constructor: initializationPromise is pending, nothing logged yet
LoggerNew == [isInitialized |-> FALSE,
              initializationPromise |-> "pending",
              initializationError |-> NoErr,
              stats |-> [totalLogs |-> 0, successfulLogs |-> 0,
                         failedLogs |-> 0, rateLimitedLogs |-> 0]]

\* exitOnCritical !== null ? exitOnCritical : this.config.exitOnCritical
ShouldExit(exitOnCritical, cfg) ==
  IF exitOnCritical # "null" THEN exitOnCritical = "true" ELSE cfg.exitOnCritical

\* _handleCriticalLog(message, context, exitOnCritical, loggingFailed)
_handleCriticalLog(sys, exitOnCritical, loggingFailed, cfg, t) ==
  IF ShouldExit(exitOnCritical, cfg)
  THEN SetExitTimer(sys, 1, IF loggingFailed THEN 0 ELSE CriticalExitDelayMs, t, "logger")
  ELSE sys

\* the statistics update in log()'s catch block
CountFailure(lg, error) ==
  [lg EXCEPT !.stats.totalLogs = @ + 1,
             !.stats.rateLimitedLogs = IF error.cls = "RateLimitError" THEN @ + 1 ELSE @,
             !.stats.failedLogs = IF error.cls = "RateLimitError" THEN @ ELSE @ + 1]

\* a frame of an async call chain: the function running and where it waits;
\* for a log call also whether its message argument is a string, whether
\* apiClient.log was called, and whether no exit was armed or made when the
\* call began
Frame(fn, pc, level, exitOnCritical, valid, error) ==
  [fn |-> fn, pc |-> pc, level |-> level, exitOnCritical |-> exitOnCritical,
   valid |-> valid, error |-> error, continues |-> TRUE, logOk |-> FALSE,
   firedRunning |-> TRUE, message |-> "string", sent |-> FALSE, idle |-> TRUE]

NoFrame == Frame("none", "none", "none", "null", TRUE, NoErr)

LogFrame(level, exitOnCritical, valid) == Frame("log", "initialize", level, exitOnCritical, valid, NoErr)
HandleErrorFrame(error) == Frame("handleError", "start", "none", "null", TRUE, error)

\* the async call chains that can be in flight: the constructor's _initialize()
\* and one call made by the application or one event delivered by the process
ChainIds == {"init", "user"}

\* what the last step decided: for a handleError call (has) the value it returns,
\* the exit call the step made, by handleError or directly, and the
\* cancelShutdown() or cleanup() call or the hook the step ended (op); for a
\* hook, whether the handler was not shutting down when the event arrived
NoReturn == [has |-> FALSE, error |-> NoErr, continues |-> TRUE, call |-> NoCall,
             wasShuttingDown |-> FALSE, logOk |-> FALSE, threw |-> FALSE,
             op |-> "none", firedRunning |-> FALSE, log |-> NoFrame]

\* a log call settles: when it is the application's call (no frame awaits it),
\* the call and the error it rejects with (NoErr: it resolves)
LogSettled(below, f, error) ==
  IF below = <<>> THEN [NoReturn EXCEPT !.op = "log", !.log = f, !.error = error]
  ELSE NoReturn

\* the frame of chain c that is running, and the frames awaiting it
Top(c) == chains[c][Len(chains[c])]
Below(c) == SubSeq(chains[c], 1, Len(chains[c]) - 1)
Running(c, fn, pc) == chains[c] # <<>> /\ Top(c).fn = fn /\ Top(c).pc = pc

\* the microtask queue is empty (no chain has a continuation in it: a settled
\* promise it awaits): the event loop takes the next timer, I/O completion or
\* application task only then
Quiescent ==
  \A c \in ChainIds :
    ~ \/ Running(c, "log", "initialize") /\ logger.initializationPromise # "pending"
      \/ Running(c, "log", "handled")
      \/ Running(c, "handleError", "logged")
      \/ Running(c, "handleError", "returning")
      \/ \E fn \in HookMethods : Running(c, fn, "logged")
      \/ Running(c, "_initialize", "handled")

\* ------------------------------------------------------------------------
\* The simple API logger (lib/Logger.js)
\* ------------------------------------------------------------------------

\* a JavaScript value passed as level or message
Str(s) == [type |-> "string", value |-> s]
\* !v
Falsy(v) == v.type = "undefined" \/ (v.type = "string" /\ v.value = "")
\* String.prototype.toLowerCase on the strings tried
ToLowerCase(s) == CASE s = "INFO" -> "info"
                    [] s = "Error" -> "error"
                    [] OTHER -> s


\* the message of the Error the statements of log() before the request throw,
\* "none" when they throw nothing
ApiLogPrepare(level, message, context) ==
  IF Falsy(level) \/ level.type # "string"
    THEN "Log level is required and must be a string"
  ELSE IF Falsy(message) \/ message.type # "string"
    THEN "Log message is required and must be a string"
  ELSE IF ToLowerCase(level.value)
            \notin {"success", "info", "warning", "error", "critical"}
    THEN "Invalid log level"
  ELSE IF context = "circular"
    THEN "Converting circular structure to JSON"
  ELSE "none"

NoReport == [totalLogs |-> None, successfulLogs |-> None, failedLogs |-> None,
             successRate |-> None]

\* calls: the log() calls, each with pc "idle" (not called), "request"
\* (awaiting _performRequest), "sleep" (awaiting _sleep) or "settled", the
\* attempt number, how its promise settled and with what value, and failure,
\* the message of the error its try block threw; report: what the last
\* getStats() returned
ApiLoggerNew(retries) ==
  [retries |-> retries,
   stats |-> [totalLogs |-> 0, successfulLogs |-> 0, failedLogs |-> 0],
   calls |-> [c \in 1..MaxApiCalls |->
                [pc |-> "idle", attempt |-> 0, settled |-> "pending",
                 value |-> [success |-> FALSE, error |-> "none"],
                 failure |-> "none"]],
   report |-> NoReport]

\* the statements of log() after the awaited request resolved
Mutant_ApiLogSucceed(lg, c) ==
  [lg EXCEPT !.stats.totalLogs = @ + 1,
             !.calls[c] = [@ EXCEPT !.pc = "settled", !.settled = "fulfilled",
                                    !.value = [success |-> TRUE, error |-> "none"]]]
ApiLogSucceed(lg, c) ==
  [lg EXCEPT !.stats.totalLogs = @ + 1,
             !.stats.successfulLogs = @ + 1,
             !.calls[c] = [@ EXCEPT !.pc = "settled", !.settled = "fulfilled",
                                    !.value = [success |-> TRUE, error |-> "none"]]]

\* the catch block of log()
ApiLogCatch(lg, c, message) ==
  [lg EXCEPT !.stats.totalLogs = @ + 1,
             !.stats.failedLogs = @ + 1,
             !.calls[c] = [@ EXCEPT !.pc = "settled", !.settled = "fulfilled",
                                    !.value = [success |-> FALSE, error |-> message],
                                    !.failure = message]]

getStats(lg) ==
  [totalLogs |-> lg.stats.totalLogs, successfulLogs |-> lg.stats.successfulLogs,
   failedLogs |-> lg.stats.failedLogs,
   \* Math.round(successfulLogs / totalLogs * 100)
   successRate |-> IF lg.stats.totalLogs > 0
                     THEN FloorDiv(200 * lg.stats.successfulLogs + lg.stats.totalLogs,
                                   2 * lg.stats.totalLogs)
                     ELSE 0]

\* ------------------------------------------------------------------------
\* The batch logger of LoggerSimple.createBatchLogger (lib/ConfigValidator.js)
\* ------------------------------------------------------------------------

\* batch: the logs added and not yet taken, oldest first; batchTimer: the
\* handle kept in the closure (None for null); armed: the setTimeout handles
\* whose callback has neither run nor been cleared; sending: processBatch
\* calls awaiting their Promise.all; handed: the logs passed to self.log();
\* added: number of add() calls so far
BatchLoggerNew(maxBatchSize) ==
  [maxBatchSize |-> maxBatchSize, batch |-> <<>>, batchTimer |-> None, armed |-> {},
   sending |-> 0, handed |-> {}, added |-> 0]

\* processBatch up to its await
processBatch(bl) ==
  IF Len(bl.batch) = 0
    THEN bl
    ELSE [bl EXCEPT !.batch = <<>>,
                    !.handed = @ \cup {bl.batch[i] : i \in 1..Len(bl.batch)},
                    !.sending = @ + 1]

\* add(level, message, context, content) of the log numbered id
add(bl, id) ==
  LET pushed == [bl EXCEPT !.batch = Append(@, id), !.added = @ + 1] IN
    IF Len(pushed.batch) >= pushed.maxBatchSize
      THEN processBatch(pushed)
    ELSE IF pushed.batchTimer = None
      THEN [pushed EXCEPT !.batchTimer = id, !.armed = @ \cup {id}]
    ELSE pushed

\* ------------------------------------------------------------------------
\* The event-emitter Logger (App.js)
\* ------------------------------------------------------------------------


\* logQueue: the queued logs, oldest first, each [id, valid] (valid: level
\* and message pass the validation of sendLog); batchTimer: the interval of
\* startBatchProcessing is set; inFlight: logs whose sendLog awaits
\* makeRequestWithRetry; shutdown: "none", "flushing" (shutdown() awaits
\* flushLogs()) or "done"; waits: the logs whose sendLog promises that
\* flushLogs() call awaits; bySignal: shutdown() was called by a signal
\* handler; exits: the process.exit codes, in order.
\* History: accepted (the logs queueLog pushed), requested (the logs
\* passed to makeRequestWithRetry), skipped (the logs sendLog returned null
\* for), queued (number of queueLog calls)
EmitterLoggerNew(batchSize) ==
  [batchSize |-> batchSize, isShuttingDown |-> FALSE, batchTimer |-> TRUE,
   logQueue |-> <<>>, inFlight |-> {},
   metrics |-> [logsSent |-> 0, logsSuccess |-> 0, logsError |-> 0],
   shutdown |-> "none", waits |-> {}, bySignal |-> FALSE, exits |-> <<>>,
   accepted |-> {}, requested |-> {}, skipped |-> {}, queued |-> 0]

\* sendLog(log.logLevel, log.message, log.context) up to its await or return
sendLog(lg, log) ==
  IF lg.isShuttingDown
    THEN [lg EXCEPT !.skipped = @ \cup {log.id}]
  ELSE IF ~log.valid
    THEN [lg EXCEPT !.metrics.logsError = @ + 1]
  ELSE [lg EXCEPT !.requested = @ \cup {log.id}, !.inFlight = @ \cup {log.id}]

\* logsToSend.map(log => this.sendLog(...))
RECURSIVE SendAll(_, _)
SendAll(lg, logs) ==
  IF logs = <<>> THEN lg ELSE SendAll(sendLog(lg, Head(logs)), Tail(logs))

\* the logs logQueue.splice(0, batchSize) removes
LogsToSend(lg) == SubSeq(lg.logQueue, 1, Min(Len(lg.logQueue), lg.batchSize))

\* flushLogs up to its await
flushLogs(lg) ==
  IF Len(lg.logQueue) = 0
    THEN lg
    ELSE SendAll([lg EXCEPT !.logQueue = SubSeq(@, Len(LogsToSend(lg)) + 1, Len(@))],
                 LogsToSend(lg))

\* queueLog(logLevel, message, context)
queueLog(lg, log) ==
  IF lg.isShuttingDown
    THEN [lg EXCEPT !.queued = @ + 1]
    ELSE LET pushed == [lg EXCEPT !.logQueue = Append(@, log),
                                  !.accepted = @ \cup {log},
                                  !.queued = @ + 1] IN
           IF Len(pushed.logQueue) >= pushed.batchSize
             THEN flushLogs(pushed)
             ELSE pushed

\* ------------------------------------------------------------------------
\* Configuration and ApiClient (lib/ConfigValidator.js, lib/ApiClient.js)
\* ------------------------------------------------------------------------

\* ConfigValidator.validateConfig on the optional settings: TRUE when it
\* throws no ValidationError.  options holds the options that were provided
\* (an option left undefined is outside its domain), numbers as integers and
\* flags as booleans; appId and apiKey are well formed.  validator.isURL
\* accepts "https://h" and "https://h/" and rejects "h".
validateConfig(options) ==
  LET given(k) == k \in DOMAIN options IN
  /\ (given("baseUrl") /\ options.baseUrl # "")
       => options.baseUrl \in {"https://h", "https://h/"}
  /\ given("timeout") => (options.timeout >= 1000 /\ options.timeout <= 60000)
  /\ given("retries") => (options.retries >= 0 /\ options.retries <= 10)
  /\ given("maxLogsPerHour")
       => (options.maxLogsPerHour >= 100 /\ options.maxLogsPerHour <= 50000)
  /\ \A k \in {"debug", "exitOnCritical", "enableRateLimiting"} :
       given(k) => options[k] \in BOOLEAN

\* ConfigValidator.normalizeConfig: `x || default` replaces an option that is
\* undefined, 0 or ""; `x !== undefined ? x : default` only an undefined one;
\* a trailing "/" of baseUrl is removed
normalizeConfig(options) ==
  LET given(k) == k \in DOMAIN options
      baseUrl == IF given("baseUrl") /\ options.baseUrl # ""
                 THEN options.baseUrl ELSE "https://api.logger-simple.com"
  IN [baseUrl |-> IF baseUrl = "https://h/" THEN "https://h" ELSE baseUrl,
      timeout |-> IF given("timeout") /\ options.timeout # 0
                  THEN options.timeout ELSE 10000,
      retries |-> IF given("retries") /\ options.retries # 0
                  THEN options.retries ELSE 3,
      debug |-> IF given("debug") THEN options.debug ELSE FALSE,
      exitOnCritical |-> IF given("exitOnCritical") THEN options.exitOnCritical ELSE TRUE,
      maxLogsPerHour |-> IF given("maxLogsPerHour") /\ options.maxLogsPerHour # 0
                         THEN options.maxLogsPerHour ELSE 1000,
      enableRateLimiting |-> IF given("enableRateLimiting")
                             THEN options.enableRateLimiting ELSE TRUE]

\* mutant of _shouldRetry: the retry limit is compared with > instead of >=
Mutant__shouldRetry(cfg, error, retryCount) ==
  IF retryCount > cfg.retries THEN FALSE
  ELSE IF error.cls \in {"AuthenticationError", "ValidationError", "RateLimitError"}
       THEN FALSE
  ELSE IF error.cls = "NetworkError"
       THEN \/ error.statusCode = None
            \/ error.statusCode >= 500
            \/ error.statusCode = 429
  ELSE FALSE

\* ApiClient._shouldRetry(error, retryCount); an error is
\* [cls, statusCode], statusCode = None for null
_shouldRetry(cfg, error, retryCount) ==
  IF retryCount >= cfg.retries THEN FALSE
  ELSE IF error.cls \in {"AuthenticationError", "ValidationError", "RateLimitError"}
       THEN FALSE
  ELSE IF error.cls = "NetworkError"
       THEN \/ error.statusCode = None
            \/ error.statusCode >= 500
            \/ error.statusCode = 429
  ELSE FALSE

\* new Logger(options) for accepted options: the normalized config and the
\* ApiClient built from it, no request made.  Of a makeRequest call: where it
\* is (pc), the retryCount of the current attempt, and as history the number
\* of HTTP attempts, the delays waited, the errors that were retried, the
\* error of the latest attempt and how the call ended
ApiClientNew(options) ==
  [options |-> options,
   config |-> normalizeConfig(options),
   retryDelays |-> <<1000, 2000, 4000>>,
   requests |-> 0,
   pc |-> "idle",
   retryCount |-> 0,
   attempts |-> 0,
   delays |-> <<>>,
   retried |-> {},
   lastError |-> [cls |-> "none", statusCode |-> None],
   result |-> [kind |-> "none", error |-> [cls |-> "none", statusCode |-> None]]]

\* ------------------------------------------------------------------------
\* The batching Logger (App.js, the class with isProcessing)
\* ------------------------------------------------------------------------

\* constructor(config) with enableBatching: the queue, the flag, the metrics
\* and the interval timer of _startBatchProcessor.  History: the number of
\* entries created, the batches of the _flushQueue calls that await their
\* _sendBatch (cycles), every batch handed to _sendBatch (handed), where
\* _gracefulShutdown is, the batch of the _flushQueue call it awaits, and
\* the queue as it was when it printed that all logs are flushed (left)
QueueLoggerNew(batchSize) ==
  [batchSize |-> batchSize,
   logQueue |-> <<>>,
   isProcessing |-> FALSE,
   batchInterval |-> TRUE,
   metrics |-> [sent |-> 0, failed |-> 0, queued |-> 0],
   created |-> 0,
   cycles |-> <<>>,
   handed |-> <<>>,
   shutdown |-> "none",
   awaits |-> <<>>,
   left |-> <<>>]

\* the components driven on their own, as constructed and not used
LibIdle ==
  /\ apiLogger = ApiLoggerNew(3)
  /\ batchLogger = BatchLoggerNew(10)
  /\ emitterLogger = EmitterLoggerNew(100)
  /\ apiClient = ApiClientNew(<<>>)
  /\ queueLogger = QueueLoggerNew(10)

\* ------------------------------------------------------------------------
\* The rate limiter driven directly: SpecRL
\* ------------------------------------------------------------------------

\* inputs tried.  configs: constructor options <<options.maxRequests,
\* options.burstSize>>; startTimes: Date.now() at construction; tickSteps:
\* clock advances, in milliseconds; costs: checkRequest costs; updates:
\* updateConfig options <<maxRequests, burstSize, enabled>>; requestCounts:
\* calculateOptimalTiming request counts
RLInputs ==
  [configs |-> {<<1, None>>, <<4, 2>>, <<100, 10>>},
   startTimes |-> {0},
   tickSteps |-> {900000, HourMs},
   costs |-> {1, 2},
   updates |-> {<<3, None, "unset">>, <<None, 1, "unset">>,
                <<None, None, "false">>, <<None, None, "true">>},
   requestCounts |-> {2, 250}]

NoRun == [active |-> FALSE, startTokens |-> 0, admitted |-> 0, lastOutcome |-> "none"]
\* has: a report was made and no checkRequest, reset or updateConfig followed it;
\* pair: the last step was a getStatus() that followed such a report
NoStatus == [has |-> FALSE, pair |-> FALSE,
             prevAt |-> 0, prevTokens |-> 0, prevAvailable |-> 0,
             curAt |-> 0, curTokens |-> 0, curAvailable |-> 0]
NoTiming == [canProceed |-> FALSE, delay |-> None, batchSize |-> None,
             batches |-> None, totalTime |-> None]
\* for calculateOptimalTiming: the request count passed (cost) and the
\* recommendation returned (timing); for checkRequest also the outcome the
\* same call has on rlShadow (shadowOutcome)
NoResult == [op |-> "none", at |-> 0, cost |-> 0, enabled |-> FALSE,
             priorAdmitted |-> 0, maxRequests |-> 0,
             outcome |-> "none", error |-> NoError, timing |-> NoTiming,
             shadowOutcome |-> "none"]
\* the report kept, the pair forgotten
KeepReport(st) == [st EXCEPT !.pair = FALSE, !.prevAt = 0, !.prevTokens = 0,
                             !.prevAvailable = 0]

RLInit ==
  /\ now \in RLInputs.startTimes
  /\ ticks = 0
  /\ \E c \in RLInputs.configs : rateLimiter = RateLimiterNew(c[1], c[2], TRUE, now)
  /\ rlShadow = rateLimiter
  /\ rlCalls = 0
  /\ rlWarnings = 0
  /\ rlResult = NoResult
  /\ rlAdmitted = EmptyMap
  /\ rlRun = NoRun
  /\ rlStatus = NoStatus
  /\ config = [exitOnCritical |-> TRUE, exitOnAuthError |-> "unset",
               enableGlobalErrorHandling |-> "false"]
  /\ hooks = {}
  /\ errorHandler = ErrorHandlerNew
  /\ logger = LoggerNew
  /\ timers = {}
  /\ nextTimer = 1
  /\ exits = <<>>
  /\ chains = [c \in ChainIds |-> <<>>]
  /\ ops = 0
  /\ ehReturn = NoReturn
  /\ critHist = <<>>
  /\ exitCalls = 0
  /\ everCancelled = FALSE
  /\ LibIdle

\* the clock advances by d milliseconds
Tick(d) ==
  /\ ticks < MaxTicks
  /\ Quiescent
  /\ now' = now + d
  /\ ticks' = ticks + 1
  /\ rlResult' = NoResult
  /\ rlRun' = NoRun
  /\ rlStatus' = KeepReport(rlStatus)
  /\ ehReturn' = NoReturn
  /\ UNCHANGED <<rateLimiter, rlAdmitted, rlCalls, rlWarnings, rlShadow, config, hooks, errorHandler, logger,
                 timers, nextTimer, exits, chains, ops, critHist, exitCalls, everCancelled,
                 libVars>>

\* a caller invokes rateLimiter.checkRequest(cost)
RLCheckRequest(cost) ==
  LET r == checkRequest(rateLimiter, now, cost)
      sh == checkRequest(rlShadow, now, cost)
      hour == now \div HourMs
      run0 == IF rlRun.active THEN rlRun
              ELSE [active |-> TRUE,
                    startTokens |-> _refillTokens(rateLimiter, now).tokens,
                    admitted |-> 0, lastOutcome |-> "none"]
  IN /\ rateLimiter.stats.totalRequests + rateLimiter.stats.blockedRequests < MaxCalls
     /\ rateLimiter' = r.rl
     /\ rlResult' = [op |-> "checkRequest", at |-> now, cost |-> cost,
                     enabled |-> rateLimiter.enabled,
                     priorAdmitted |-> MapGet(rlAdmitted, hour),
                     maxRequests |-> rateLimiter.maxRequests,
                     outcome |-> r.outcome, error |-> r.error, timing |-> NoTiming,
                     shadowOutcome |-> sh.outcome]
     /\ rlShadow' = sh.rl
     /\ rlCalls' = rlCalls + 1
     /\ rlWarnings' = IF r.warned THEN rlWarnings + 1 ELSE rlWarnings
     /\ rlAdmitted' = IF rateLimiter.enabled /\ r.outcome = "ok"
                      THEN MapSet(rlAdmitted, hour, MapGet(rlAdmitted, hour) + 1)
                      ELSE rlAdmitted
     /\ rlRun' = IF rateLimiter.enabled /\ cost = 1 /\ r.outcome # "hourly"
                 THEN [run0 EXCEPT !.admitted = IF r.outcome = "ok" THEN @ + 1 ELSE @,
                                   !.lastOutcome = r.outcome]
                 ELSE NoRun
     /\ rlStatus' = NoStatus
     /\ UNCHANGED <<now, ticks, libVars, ehVars>>

\* a caller invokes rateLimiter.getStatus()
RLGetStatus ==
  LET r == getStatus(rateLimiter, now)
  IN /\ rateLimiter' = r.rl
     /\ rlResult' = [NoResult EXCEPT !.op = "getStatus", !.at = now]
     /\ rlStatus' = [has |-> TRUE,
                     pair |-> rlStatus.has,
                     prevAt |-> rlStatus.curAt,
                     prevTokens |-> rlStatus.curTokens,
                     prevAvailable |-> rlStatus.curAvailable,
                     curAt |-> now,
                     curTokens |-> r.rl.tokens,
                     curAvailable |-> r.status.availableTokens]
     /\ UNCHANGED <<now, ticks, libVars, rlAdmitted, rlRun, rlCalls, rlWarnings, rlShadow, ehVars>>

\* a caller invokes rateLimiter.reset()
RLReset ==
  /\ rateLimiter' = reset(rateLimiter, now)
  /\ rlShadow' = reset(rlShadow, now)
  /\ rlCalls' = 0
  /\ rlWarnings' = 0
  /\ rlResult' = [NoResult EXCEPT !.op = "reset", !.at = now]
  /\ rlAdmitted' = EmptyMap
  /\ rlRun' = NoRun
  /\ rlStatus' = NoStatus
  /\ UNCHANGED <<now, ticks, libVars, ehVars>>

\* a caller invokes rateLimiter.updateConfig(options)
RLUpdateConfig(u) ==
  /\ rateLimiter' = updateConfig(rateLimiter, u[1], u[2], u[3])
  /\ rlShadow' = updateConfig(rlShadow, u[1], u[2], u[3])
  /\ rateLimiter' # rateLimiter
  /\ rlResult' = [NoResult EXCEPT !.op = "updateConfig", !.at = now]
  /\ rlRun' = NoRun
  /\ rlStatus' = NoStatus
  /\ rlWarnings' = 0
  /\ UNCHANGED <<now, ticks, libVars, rlAdmitted, rlCalls, ehVars>>

\* a caller invokes rateLimiter.calculateOptimalTiming(n)
RLCalculateOptimalTiming(n) ==
  LET r == calculateOptimalTiming(rateLimiter, now, n)
  IN /\ rateLimiter' = r.rl
     /\ rlResult' = [NoResult EXCEPT !.op = "calculateOptimalTiming", !.at = now,
                                     !.cost = n, !.timing = r.timing]
     /\ rlStatus' = KeepReport(rlStatus)
     /\ UNCHANGED <<now, ticks, libVars, rlAdmitted, rlRun, rlCalls, rlWarnings, rlShadow, ehVars>>

RLNext ==
  \/ \E d \in RLInputs.tickSteps : Tick(d)
  \/ \E cost \in RLInputs.costs : RLCheckRequest(cost)
  \/ RLGetStatus
  \/ RLReset
  \/ \E u \in RLInputs.updates : RLUpdateConfig(u)
  \/ \E n \in RLInputs.requestCounts : RLCalculateOptimalTiming(n)

vars == <<now, ticks, rlVars, ehVars, libVars>>

SpecRL == RLInit /\ [][RLNext]_vars

\* ------------------------------------------------------------------------
\* The logger and its error handler: SpecEH
\* ------------------------------------------------------------------------

\* inputs tried.  configs: configurations; tickSteps: clock advances, in
\* milliseconds; errors: errors handed to handleError by the application;
\* logs: log calls made by the application, <<level, exitOnCritical argument,
\* valid entry, message argument>> (an invalid entry with a string message has
\* an empty or oversized message, or a bad context, content, tags or metadata;
\* the message "other" is missing or not a string); sendOutcomes: answers of
\* the API to apiClient.log; appInfoOutcomes: answers of the API to
\* apiClient.getAppInfo followed by the category check; serverLimits:
\* appInfo.max_logs_per_hour values (None: absent); exitCodes: exit codes
\* passed to _scheduleExit / _forceExit by the signal and exception handlers
EHInputs ==
  [configs |-> {[exitOnCritical |-> TRUE, exitOnAuthError |-> "unset",
                 enableGlobalErrorHandling |-> "unset"],
                [exitOnCritical |-> FALSE, exitOnAuthError |-> "false",
                 enableGlobalErrorHandling |-> "unset"],
                [exitOnCritical |-> TRUE, exitOnAuthError |-> "unset",
                 enableGlobalErrorHandling |-> "false"]},
   tickSteps |-> {30000},
   errors |-> {ApplicationErr, AuthenticationErr, RateLimitErr,
               ShutdownErr(0), ShutdownErr(2),
               LoggerErr("CRITICAL_ERROR"), LoggerErr("FATAL_ERROR"),
               NetworkErr, [cls |-> "Error", code |-> "none", exitCode |-> None], [cls |-> "null", code |-> "none", exitCode |-> None]},
   logs |-> {<<"info", "null", TRUE, "string">>, <<"info", "null", FALSE, "string">>,
             <<"info", "null", FALSE, "other">>,
             <<"critical", "null", TRUE, "string">>,
             <<"critical", "false", TRUE, "string">>,
             <<"critical", "null", FALSE, "string">>,
             <<"critical", "null", FALSE, "other">>},
   sendOutcomes |-> {"ok", "auth", "rateLimit", "network"},
   appInfoOutcomes |-> {"ok", "wrongCategory", "auth", "rateLimit", "network"},
   serverLimits |-> {None, 1},
   exitCodes |-> {0, 1}]

\* the error _handleApiError makes of a failed request
ApiError(outcome) ==
  IF outcome = "auth" THEN AuthenticationErr
  ELSE IF outcome = "rateLimit" THEN RateLimitErr
  ELSE IF outcome = "wrongCategory" THEN ApplicationErr
  ELSE NetworkErr

Sys == [eh |-> errorHandler, timers |-> timers, nextTimer |-> nextTimer, exits |-> exits]

SetSys(s) ==
  /\ errorHandler' = s.eh
  /\ timers' = s.timers
  /\ nextTimer' = s.nextTimer
  /\ exits' = s.exits

CountCall(call) == IF call.fn # "none" THEN Min(exitCalls + 1, 2) ELSE exitCalls

\* a promise settles: the awaiting frame underneath resumes
ResumeAfterHandle(below, continues) ==
  IF below = <<>> THEN below
  ELSE [below EXCEPT ![Len(below)].pc = "handled",
                     ![Len(below)].continues = continues]

ResumeAfterLog(below, ok) ==
  IF below = <<>> THEN below
  ELSE [below EXCEPT ![Len(below)].pc = "logged", ![Len(below)].logOk = ok]

\* errorHandler.handleError(error, context) is called on chain c above the
\* frames `below`, in system state s: it runs up to its first suspension. The
\* LoggerError branch is synchronous; every other branch starts its secondary
\* log, which suspends in `await this.initialize()`.
EnterHandleError(c, below, error, s) ==
  LET branch == Classify(error)
      r == _handleLoggerError(s, error, now)
      \* the secondary log each branch attempts: <<level, exitOnCritical
      \* argument>> (_logCriticalError passes exitOnCritical = false; the
      \* others pass nothing)
      sl == IF branch \in {"application", "shutdown"} THEN <<"critical", "false">>
            ELSE IF branch = "rateLimit" THEN <<"warning", "null">>
            ELSE <<"error", "null">>
  IN IF error.cls = "null"
     THEN \* errorInfo = { name: error.name, ... } throws before the try block
          /\ SetSys(s)
          /\ chains' = [chains EXCEPT ![c] = below]
          /\ ehReturn' = [NoReturn EXCEPT !.has = TRUE, !.error = error, !.threw = TRUE,
                                          !.wasShuttingDown = s.eh.isShuttingDown]
          /\ UNCHANGED <<critHist, exitCalls>>
     ELSE IF branch = "logger"
     THEN /\ SetSys(r.sys)
          /\ chains' = [chains EXCEPT ![c] =
                 Append(below, [HandleErrorFrame(error) EXCEPT !.pc = "returning",
                                                              !.continues = r.continues])]
          /\ critHist' = IF r.tracked THEN Append(critHist, now) ELSE critHist
          /\ exitCalls' = CountCall(r.call)
          /\ ehReturn' = [has |-> TRUE, error |-> error, continues |-> r.continues,
                          call |-> r.call,
                          wasShuttingDown |-> s.eh.isShuttingDown, logOk |-> FALSE,
                          threw |-> FALSE, op |-> "none", firedRunning |-> FALSE,
                          log |-> NoFrame]
     ELSE /\ SetSys(s)
          /\ chains' = [chains EXCEPT ![c] =
                 below \o <<[HandleErrorFrame(error) EXCEPT !.pc = "logging"],
                            LogFrame(sl[1], sl[2], TRUE)>>]
          /\ ehReturn' = NoReturn
          /\ UNCHANGED <<critHist, exitCalls>>

CanEnter(below) == Len(below) + 2 <= MaxDepth

\* the share of the budget MaxOps an application call uses: a call that starts
\* an async chain of logging, a direct call of an exit or cancel method, a
\* handleError call that is answered synchronously
OpCost(kind) == IF kind = "chain" THEN 5 ELSE IF kind = "direct" THEN 2 ELSE 1
HandleCost(error) == OpCost(IF Classify(error) = "logger" THEN "sync" ELSE "chain")

EHInit ==
  /\ now = 0
  /\ ticks = 0
  /\ rateLimiter = RateLimiterNew(MinLogsPerHour, None, TRUE, 0)
  /\ rlShadow = rateLimiter
  /\ rlCalls = 0
  /\ rlWarnings = 0
  /\ rlResult = NoResult
  /\ rlAdmitted = EmptyMap
  /\ rlRun = NoRun
  /\ rlStatus = NoStatus
  /\ config \in EHInputs.configs
  \* the listeners installed by the constructor
  /\ hooks = IF config.enableGlobalErrorHandling # "false"
             THEN setupGlobalErrorHandlers ELSE {}
  /\ errorHandler = ErrorHandlerNew
  /\ logger = LoggerNew
  /\ timers = {}
  /\ nextTimer = 1
  /\ exits = <<>>
  /\ chains = [c \in ChainIds |-> IF c = "init" THEN <<(Frame("_initialize", "testConnection", "none", "null", TRUE, NoErr))>> ELSE <<>>]
  /\ ops = 0
  /\ ehReturn = NoReturn
  /\ critHist = <<>>
  /\ exitCalls = 0
  /\ everCancelled = FALSE
  /\ LibIdle

rlGhosts == <<rlResult, rlAdmitted, rlRun, rlStatus, rlCalls, rlWarnings, rlShadow>>

\* _initialize(): apiClient.testConnection() settles
InitTestConnection(isConnected) ==
  /\ Running("init", "_initialize", "testConnection")
  /\ Quiescent
  /\ IF isConnected
     THEN /\ chains' = [chains EXCEPT !["init"][Len(chains["init"])].pc = "getAppInfo"]
          /\ ehReturn' = NoReturn
          /\ UNCHANGED <<errorHandler, timers, nextTimer, exits, critHist, exitCalls>>
     ELSE LET e == LoggerErr("LOGGER_ERROR")
          IN EnterHandleError("init",
                 <<[Top("init") EXCEPT !.pc = "handling", !.error = e]>>, e, Sys)
  /\ UNCHANGED <<now, ticks, libVars, rateLimiter, rlGhosts, config, hooks, logger, ops, everCancelled>>

\* _initialize(): apiClient.getAppInfo() settles and the category is validated
InitGetAppInfo(outcome, serverLimit) ==
  /\ Running("init", "_initialize", "getAppInfo")
  /\ Quiescent
  /\ IF outcome = "ok"
     THEN /\ rateLimiter' = IF serverLimit # None
                            THEN updateConfig(rateLimiter, Min(MinLogsPerHour, serverLimit),
                                              None, "unset")
                            ELSE rateLimiter
          /\ logger' = [logger EXCEPT !.isInitialized = TRUE,
                                      !.initializationPromise = "resolvedTrue"]
          /\ chains' = [chains EXCEPT !["init"] = <<>>]
          /\ ehReturn' = NoReturn
          /\ UNCHANGED <<errorHandler, timers, nextTimer, exits, critHist, exitCalls>>
     ELSE /\ serverLimit = None
          /\ EnterHandleError("init",
                 <<[Top("init") EXCEPT !.pc = "handling", !.error = ApiError(outcome)]>>,
                 ApiError(outcome), Sys)
          /\ UNCHANGED <<rateLimiter, logger>>
  /\ UNCHANGED <<now, ticks, libVars, rlGhosts, config, hooks, ops, everCancelled>>

\* _initialize(): handleError has returned shouldContinue
InitAfterHandle ==
  /\ Running("init", "_initialize", "handled")
  /\ logger' = IF Top("init").continues
               THEN [logger EXCEPT !.initializationPromise = "resolvedFalse"]
               ELSE [logger EXCEPT !.initializationPromise = "rejected",
                                   !.initializationError = Top("init").error]
  /\ chains' = [chains EXCEPT !["init"] = <<>>]
  /\ ehReturn' = NoReturn
  /\ UNCHANGED <<now, ticks, libVars, rateLimiter, rlGhosts, config, hooks, errorHandler, timers,
                 nextTimer, exits, ops, critHist, exitCalls, everCancelled>>

\* the application calls logger.log(level, message, ..., exitOnCritical)
CallLog(level, exitOnCritical, valid, message) ==
  /\ ops + OpCost("chain") <= MaxOps
  /\ Quiescent
  /\ chains["user"] = <<>>
  /\ ops' = ops + OpCost("chain")
  /\ chains' = [chains EXCEPT !["user"] =
         <<[LogFrame(level, exitOnCritical, valid)
              EXCEPT !.message = message,
                     !.idle = (timers = {} /\ exits = <<>>)]>>]
  /\ ehReturn' = NoReturn
  /\ UNCHANGED <<now, ticks, libVars, rateLimiter, rlGhosts, config, hooks, errorHandler, logger,
                 timers, nextTimer, exits, critHist, exitCalls, everCancelled>>

\* mutant of LogThrown: the outcome of checkRequest is ignored
Mutant_LogThrown(lg, f, outcome) ==
  IF lg.initializationPromise = "rejected" THEN lg.initializationError
  ELSE IF ~f.valid THEN ValidationErr
  ELSE NoErr

\* what the try block of log() throws before the transport call: the error
\* of a rejected initialization, else a ValidationError, else the
\* RateLimitError of checkRequest, else nothing
LogThrown(lg, f, outcome) ==
  IF lg.initializationPromise = "rejected" THEN lg.initializationError
  ELSE IF ~f.valid THEN ValidationErr
  ELSE IF outcome # "ok" THEN RateLimitErr
  ELSE NoErr

\* log(): `await this.initialize()` has settled; validation and the rate
\* limit check follow, and the catch block if any of the three throws. The
\* catch block itself throws a TypeError at message.substring(0, 100) when the
\* message is no string: the call rejects with it, handleError is not called.
LogProceed(c) ==
  LET f == Top(c)
      r == checkRequest(rateLimiter, now, 1)
      thrown == LogThrown(logger, f, r.outcome)
      checked == logger.initializationPromise # "rejected" /\ f.valid
  IN /\ Running(c, "log", "initialize")
     /\ logger.initializationPromise # "pending"
     /\ rateLimiter' = IF checked THEN r.rl ELSE rateLimiter
     /\ IF thrown = NoErr
        THEN /\ chains' = [chains EXCEPT ![c][Len(chains[c])].pc = "sending",
                                         ![c][Len(chains[c])].sent = TRUE]
             /\ ehReturn' = NoReturn
             /\ UNCHANGED <<logger, errorHandler, timers, nextTimer, exits,
                            critHist, exitCalls>>
        ELSE IF f.message # "string"
        THEN /\ logger' = CountFailure(logger, thrown)
             /\ chains' = [chains EXCEPT ![c] = ResumeAfterLog(Below(c), FALSE)]
             /\ ehReturn' = LogSettled(Below(c), f, [cls |-> "TypeError", code |-> "none", exitCode |-> None])
             /\ UNCHANGED <<errorHandler, timers, nextTimer, exits, critHist, exitCalls>>
        ELSE /\ CanEnter(chains[c])
             /\ logger' = CountFailure(logger, thrown)
             /\ EnterHandleError(c,
                    Append(Below(c), [f EXCEPT !.pc = "handling", !.error = thrown]),
                    thrown, Sys)
     /\ UNCHANGED <<now, ticks, libVars, rlGhosts, config, hooks, ops, everCancelled>>

\* log(): apiClient.log() settles
LogSendDone(c, outcome) ==
  LET f == Top(c)
      e == ApiError(outcome)
  IN /\ Running(c, "log", "sending")
     /\ Quiescent
     /\ IF outcome = "ok"
        THEN /\ logger' = [logger EXCEPT !.stats.totalLogs = @ + 1, !.stats.successfulLogs = @ + 1]
             /\ SetSys(IF f.level = "critical"
                       THEN _handleCriticalLog(Sys, f.exitOnCritical, FALSE, config, now)
                       ELSE Sys)
             /\ chains' = [chains EXCEPT ![c] = ResumeAfterLog(Below(c), TRUE)]
             /\ ehReturn' = LogSettled(Below(c), f, NoErr)
             /\ UNCHANGED <<critHist, exitCalls>>
        ELSE /\ CanEnter(chains[c])
             /\ logger' = CountFailure(logger, e)
             /\ EnterHandleError(c,
                    Append(Below(c), [f EXCEPT !.pc = "handling", !.error = e]), e, Sys)
     /\ UNCHANGED <<now, ticks, libVars, rateLimiter, rlGhosts, config, hooks, ops, everCancelled>>

\* log()'s catch block: handleError has returned; the error is rethrown, after
\* _handleCriticalLog(..., true) for a critical log that is to exit
LogAfterHandle(c) ==
  LET f == Top(c)
  IN /\ Running(c, "log", "handled")
     /\ SetSys(IF f.continues /\ f.level = "critical" /\ ShouldExit(f.exitOnCritical, config)
               THEN _handleCriticalLog(Sys, f.exitOnCritical, TRUE, config, now)
               ELSE Sys)
     /\ chains' = [chains EXCEPT ![c] = ResumeAfterLog(Below(c), FALSE)]
     /\ ehReturn' = LogSettled(Below(c), f, f.error)
     /\ UNCHANGED <<now, ticks, libVars, rateLimiter, rlGhosts, config, hooks, logger, ops,
                    critHist, exitCalls, everCancelled>>

\* the application calls errorHandler.handleError(error)
CallHandleError(error) ==
  /\ ops + HandleCost(error) <= MaxOps
  /\ Quiescent
  /\ chains["user"] = <<>>
  /\ ops' = ops + HandleCost(error)
  /\ EnterHandleError("user", <<>>, error, Sys)
  /\ UNCHANGED <<now, ticks, libVars, rateLimiter, rlGhosts, config, hooks, logger, everCancelled>>

\* _handleApplicationError, _handleAuthenticationError, _handleRateLimitError,
\* _handleShutdownError, _handleGenericError: the secondary log has settled
\* (its failure is caught and printed); the branch makes its exit call and
\* returns
HandleFinish(c) ==
  LET f == Top(c)
      v == Verdict(Classify(f.error), f.error, config)
  IN /\ Running(c, "handleError", "logged")
     /\ SetSys(ApplyCall(Sys, v.call, now))
     /\ exitCalls' = CountCall(v.call)
     /\ ehReturn' = [has |-> TRUE, error |-> f.error, continues |-> v.continues,
                     call |-> v.call, wasShuttingDown |-> errorHandler.isShuttingDown,
                     logOk |-> f.logOk, threw |-> FALSE, op |-> "none",
                     firedRunning |-> FALSE, log |-> NoFrame]
     /\ chains' = [chains EXCEPT ![c] = ResumeAfterHandle(Below(c), v.continues)]
     /\ UNCHANGED <<now, ticks, libVars, rateLimiter, rlGhosts, config, hooks, logger, ops,
                    critHist, everCancelled>>

\* the promise of a handleError call that took the LoggerError branch resolves
HandleReturn(c) ==
  /\ Running(c, "handleError", "returning")
  /\ chains' = [chains EXCEPT ![c] = ResumeAfterHandle(Below(c), Top(c).continues)]
  /\ ehReturn' = NoReturn
  /\ UNCHANGED <<now, ticks, libVars, rateLimiter, rlGhosts, config, hooks, errorHandler, logger,
                 timers, nextTimer, exits, ops, critHist, exitCalls, everCancelled>>

\* _scheduleExit(exitCode, reason) is called (signal handler)
CallScheduleExit(exitCode) ==
  /\ ops + OpCost("direct") <= MaxOps
  /\ ops' = ops + OpCost("direct")
  /\ SetSys(_scheduleExit(Sys, exitCode, now))
  /\ exitCalls' = CountCall(ScheduleExitCall(exitCode))
  /\ ehReturn' = [NoReturn EXCEPT !.call = ScheduleExitCall(exitCode),
                                  !.wasShuttingDown = errorHandler.isShuttingDown]
  /\ UNCHANGED <<now, ticks, libVars, rateLimiter, rlGhosts, config, hooks, logger, chains,
                 critHist, everCancelled>>

\* _forceExit(exitCode, reason) is called (uncaught exception handler)
CallForceExit(exitCode) ==
  /\ ops + OpCost("direct") <= MaxOps
  /\ ops' = ops + OpCost("direct")
  /\ SetSys(_forceExit(Sys, exitCode))
  /\ exitCalls' = CountCall(ForceExitCall(exitCode))
  /\ ehReturn' = [NoReturn EXCEPT !.call = ForceExitCall(exitCode),
                                  !.wasShuttingDown = errorHandler.isShuttingDown]
  /\ UNCHANGED <<now, ticks, libVars, rateLimiter, rlGhosts, config, hooks, logger, chains,
                 critHist, everCancelled>>

\* the application calls errorHandler.cancelShutdown()
CancelShutdown ==
  /\ ops + OpCost("direct") <= MaxOps
  /\ ops' = ops + OpCost("direct")
  /\ SetSys(cancelShutdown(Sys))
  /\ everCancelled' = TRUE
  /\ ehReturn' = [NoReturn EXCEPT !.op = "cancelShutdown"]
  /\ UNCHANGED <<now, ticks, libVars, rateLimiter, rlGhosts, config, hooks, logger, chains,
                 critHist, exitCalls>>

\* the application calls errorHandler.cleanup()
Cleanup ==
  /\ ops + OpCost("direct") <= MaxOps
  /\ ops' = ops + OpCost("direct")
  /\ SetSys(cleanup(Sys))
  /\ hooks' = cleanupListeners(hooks)
  /\ everCancelled' = TRUE
  /\ ehReturn' = [NoReturn EXCEPT !.op = "cleanup"]
  /\ UNCHANGED <<now, ticks, libVars, rateLimiter, rlGhosts, config, logger, chains,
                 critHist, exitCalls>>

\* the process delivers an event to the listener registered for it: the hook
\* runs up to the await of its log
FireEvent(event) ==
  LET fn == HookMethod(event)
      hl == HookLog(fn)
  IN /\ ops + OpCost("chain") <= MaxOps
     /\ Quiescent
     /\ chains["user"] = <<>>
     /\ \E h \in hooks : h.event = event
     /\ ops' = ops + OpCost("chain")
     /\ chains' = [chains EXCEPT !["user"] =
            <<[Frame(fn, "logging", "none", "null", TRUE, NoErr)
                 EXCEPT !.firedRunning = ~errorHandler.isShuttingDown],
              LogFrame(hl[1], hl[2], TRUE)>>]
     /\ ehReturn' = NoReturn
     /\ UNCHANGED <<now, ticks, libVars, rateLimiter, rlGhosts, config, hooks, errorHandler,
                    logger, timers, nextTimer, exits, critHist, exitCalls,
                    everCancelled>>

\* handleUncaughtException, handleUnhandledRejection, handleShutdownSignal: the
\* log has settled (its failure is caught and printed); the hook makes its
\* exit call
HookFinish(c) ==
  LET f == Top(c)
      call == HookCall(f.fn, config)
  IN /\ chains[c] # <<>>
     /\ f.fn \in HookMethods
     /\ f.pc = "logged"
     /\ SetSys(ApplyCall(Sys, call, now))
     /\ exitCalls' = CountCall(call)
     /\ ehReturn' = [NoReturn EXCEPT !.op = f.fn, !.call = call, !.logOk = f.logOk,
                                     !.firedRunning = f.firedRunning,
                                     !.wasShuttingDown = errorHandler.isShuttingDown]
     /\ chains' = [chains EXCEPT ![c] = Below(c)]
     /\ UNCHANGED <<now, ticks, libVars, rateLimiter, rlGhosts, config, hooks, logger, ops,
                    critHist, everCancelled>>

\* a setTimeout callback runs: process.exit(code)
TimerFire(tm) ==
  /\ tm \in timers
  /\ Quiescent
  /\ tm.due <= now
  /\ SetSys(ProcessExit([Sys EXCEPT !.timers = @ \ {tm}], tm.code, tm.by))
  /\ ehReturn' = NoReturn
  /\ UNCHANGED <<now, ticks, libVars, rateLimiter, rlGhosts, config, hooks, logger, chains, ops,
                 critHist, exitCalls, everCancelled>>

EHNext ==
  \/ \E d \in EHInputs.tickSteps : Tick(d)
  \/ \E ok \in BOOLEAN : InitTestConnection(ok)
  \/ \E o \in EHInputs.appInfoOutcomes, l \in EHInputs.serverLimits : InitGetAppInfo(o, l)
  \/ InitAfterHandle
  \/ \E l \in EHInputs.logs : CallLog(l[1], l[2], l[3], l[4])
  \/ \E c \in ChainIds : LogProceed(c)
  \/ \E c \in ChainIds, o \in EHInputs.sendOutcomes : LogSendDone(c, o)
  \/ \E c \in ChainIds : LogAfterHandle(c)
  \/ \E e \in EHInputs.errors : CallHandleError(e)
  \/ \E c \in ChainIds : HandleFinish(c)
  \/ \E c \in ChainIds : HandleReturn(c)
  \/ \E code \in EHInputs.exitCodes : CallScheduleExit(code)
  \/ \E code \in EHInputs.exitCodes : CallForceExit(code)
  \/ CancelShutdown
  \/ Cleanup
  \/ \E ev \in {"uncaughtException", "unhandledRejection", "SIGTERM", "SIGINT"} : FireEvent(ev)
  \/ \E c \in ChainIds : HookFinish(c)
  \/ \E tm \in timers : TimerFire(tm)

SpecEH == EHInit /\ [][EHNext]_vars

\* ------------------------------------------------------------------------
\* Properties of the rate limiter (checked under SpecRL)
\* ------------------------------------------------------------------------

\* C1: in an enabled limiter, a checkRequest made when maxRequests calls have
\* already been admitted in the current hour bucket (since construction or the
\* last reset()) is rejected with the hourly RateLimitError, whose resetTime is
\* the start of the next hour bucket, whatever the bucket holds.
C1_HourlyCapIsHard ==
  (/\ rlResult.op = "checkRequest"
   /\ rlResult.enabled
   /\ rlResult.priorAdmitted >= rlResult.maxRequests)
  => /\ rlResult.outcome = "hourly"
     /\ rlResult.error.kind = "hourly"
     /\ rlResult.error.resetTime = ((rlResult.at \div 3600000) + 1) * 3600000
     /\ rlResult.error.resetTime > rlResult.at

\* C1 witness: the hourly rejection happened with at least one whole token at hand
C1_Witness ==
  /\ rlResult.op = "checkRequest"
  /\ rlResult.enabled
  /\ rlResult.priorAdmitted >= rlResult.maxRequests
  /\ rlResult.priorAdmitted > 0
  /\ rlResult.outcome = "hourly"
  /\ rateLimiter.tokens >= 3600000

\* C2: in a run of checkRequest(1) calls made at one instant on an enabled
\* limiter that held T tokens when the run began, and whose hourly quota is not
\* reached, an admitted call is at most the floor(T)-th and the burst
\* rejection comes exactly when floor(T) calls were admitted.
C2_BurstAdmitsFloorOfTokens ==
  rlRun.active =>
    /\ rlRun.lastOutcome = "ok" => rlRun.admitted * 3600000 <= rlRun.startTokens
    /\ rlRun.lastOutcome = "burst" =>
         /\ rlRun.admitted * 3600000 <= rlRun.startTokens
         /\ rlRun.startTokens < (rlRun.admitted + 1) * 3600000

\* C2 witness: a run that began with a fractional token count, admitted a call
\* and was then rejected by the burst limit
C2_Witness ==
  /\ rlRun.active
  /\ rlRun.lastOutcome = "burst"
  /\ rlRun.admitted >= 1
  /\ rlRun.startTokens % 3600000 # 0

\* C3: 0 <= tokens <= burstSize in every reachable state
C3_TokensWithinCapacity ==
  /\ 0 <= rateLimiter.tokens
  /\ rateLimiter.tokens <= rateLimiter.burstSize * 3600000

\* C3 witness: updateConfig shrank the capacity to 1 and the bucket is full
C3_Witness ==
  /\ rateLimiter.burstSize = 1
  /\ rateLimiter.tokens = 3600000
  /\ rateLimiter.stats.totalRequests > 0

\* C4 as stated: between two getStatus() reports with only clock advances (T ms
\* in all) in between, the reported availableTokens grew by exactly
\* min(capacity - previousTokens, T * refillRatePerMs), previousTokens read
\* either as the bucket's content or as the value reported before.
C4_ReportedRefillExact ==
  rlStatus.pair =>
    LET grown == (rlStatus.curAvailable - rlStatus.prevAvailable) * 3600000
        added == (rlStatus.curAt - rlStatus.prevAt) * rateLimiter.maxRequests
    IN \/ grown = Min(rateLimiter.burstSize * 3600000 - rlStatus.prevTokens, added)
       \/ grown = Min((rateLimiter.burstSize - rlStatus.prevAvailable) * 3600000, added)

\* C4 amended: between two such reports the bucket's tokens grew by exactly
\* min(capacity - previousTokens, T * refillRatePerMs), and availableTokens is
\* that content rounded down to a whole number.
C4_BucketRefillExact ==
  rlStatus.pair =>
    /\ rlStatus.curTokens - rlStatus.prevTokens =
         Min(rateLimiter.burstSize * 3600000 - rlStatus.prevTokens,
             (rlStatus.curAt - rlStatus.prevAt) * rateLimiter.maxRequests)
    /\ rlStatus.curAvailable * 3600000 <= rlStatus.curTokens
    /\ rlStatus.curTokens < (rlStatus.curAvailable + 1) * 3600000

\* C4 witness: time passed between the two reports and the bucket gained a
\* fraction of a token without reaching its capacity
C4_Witness ==
  /\ rlStatus.pair
  /\ rlStatus.curAt > rlStatus.prevAt
  /\ rlStatus.curTokens > rlStatus.prevTokens
  /\ rlStatus.curTokens % 3600000 # 0
  /\ rlStatus.curTokens < rateLimiter.burstSize * 3600000

\* ------------------------------------------------------------------------
\* Properties of the error handler and the logger (checked under SpecEH)
\* ------------------------------------------------------------------------

\* chain c holds a handleError call for an error of class cls that has not returned
InFlight(c, cls) ==
  \E i \in 1..Len(chains[c]) :
    chains[c][i].fn = "handleError" /\ chains[c][i].error.cls = cls

\* chain c is the _initialize() call and its running frame awaits
\* initializationPromise, the promise that only this _initialize() call settles
CircularWait(c) ==
  /\ chains[c] # <<>>
  /\ chains[c][1].fn = "_initialize"
  /\ Running(c, "log", "initialize")
  /\ logger.initializationPromise = "pending"

\* C5: as long as cancelShutdown() and cleanup() are not used, the calls of
\* _scheduleExit and _forceExit made so far, however many and in whatever
\* order, have together produced exactly one termination: either one
\* process.exit call of the handler, or one armed exit timer and no process.exit
\* call yet; before the first call there is none, and isShuttingDown is true
\* from the first call on.
C5_ExactlyOneExit ==
  LET ehExits == {i \in 1..Len(exits) : exits[i].by = "errorHandler"}
      ehTimers == {tm \in timers : tm.by = "errorHandler"}
  IN ~everCancelled =>
       /\ Cardinality(ehExits) + Cardinality(ehTimers) = (IF exitCalls > 0 THEN 1 ELSE 0)
       /\ errorHandler.isShuttingDown = (exitCalls > 0)

\* two exit calls were made and the one process.exit has happened
C5_Witness ==
  /\ ~everCancelled
  /\ exitCalls = 2
  /\ Len(exits) = 1
  /\ exits[1].by = "errorHandler"
  /\ timers = {}

\* C6: a handleError call for a RateLimitError returns true without an exit
\* call, and always gets to return: it is never left waiting for a promise
\* that cannot settle.
C6_RateLimitErrorNeverFatal ==
  /\ (ehReturn.has /\ ehReturn.error.cls = "RateLimitError")
       => (ehReturn.continues /\ ehReturn.call.fn = "none")
  /\ \A c \in ChainIds : InFlight(c, "RateLimitError") => ~CircularWait(c)

\* C7: when handleError decides on a LoggerError with code CRITICAL_ERROR or
\* FATAL_ERROR and at least five such errors (this one included) were handled
\* less than 60000 ms ago, it returns false and calls _scheduleExit(1), which
\* arms the exit timer unless a shutdown is already under way; while fewer
\* than five were ever handled it returns true.
C7_FifthCriticalErrorExits ==
  LET recent == {i \in 1..Len(critHist) : now - critHist[i] < 60000}
  IN (/\ ehReturn.has
      /\ ehReturn.error.cls = "LoggerError"
      /\ ehReturn.error.code \in {"CRITICAL_ERROR", "FATAL_ERROR"})
     => /\ Cardinality(recent) >= 5
           => /\ ~ehReturn.continues
              /\ ehReturn.call = [fn |-> "_scheduleExit", code |-> 1]
              /\ errorHandler.isShuttingDown
              /\ ~ehReturn.wasShuttingDown
                   => \E tm \in timers : /\ tm.by = "errorHandler"
                                         /\ tm.code = 1
                                         /\ tm.due = now + 2000
        /\ Len(critHist) < 5 => ehReturn.continues

\* the fifth critical error, 30 seconds after the first, has been refused
C7_Witness ==
  /\ ehReturn.has
  /\ ehReturn.error.code = "CRITICAL_ERROR"
  /\ ~ehReturn.continues
  /\ Len(critHist) = 5
  /\ critHist[5] - critHist[1] = 30000
  /\ \E tm \in timers : tm.by = "errorHandler" /\ tm.code = 1

\* C8: when handleError decides on a LoggerError with code CRITICAL_ERROR or
\* FATAL_ERROR and fewer than five such errors (this one included) were handled
\* less than 60000 ms ago, it returns true, makes no exit call and leaves the
\* shutdown state as it was.
C8_SpreadCriticalErrorsContinue ==
  LET recent == {i \in 1..Len(critHist) : now - critHist[i] < 60000}
  IN (/\ ehReturn.has
      /\ ehReturn.error.cls = "LoggerError"
      /\ ehReturn.error.code \in {"CRITICAL_ERROR", "FATAL_ERROR"}
      /\ Cardinality(recent) < 5)
     => /\ ehReturn.continues
        /\ ehReturn.call.fn = "none"
        /\ errorHandler.isShuttingDown = ehReturn.wasShuttingDown

\* the fifth critical error, 60 seconds after the first four, has been accepted
C8_Witness ==
  /\ ehReturn.has
  /\ ehReturn.error.code \in {"CRITICAL_ERROR", "FATAL_ERROR"}
  /\ ehReturn.continues
  /\ Len(critHist) = 5
  /\ critHist[4] = critHist[1]
  /\ critHist[5] - critHist[1] = 60000
  /\ timers = {}
  /\ exits = <<>>

\* C9: a handleError call for an ApplicationError returns false after a
\* _forceExit(1) call, whatever the configuration and whether or not the
\* critical log succeeded, and always gets to return: it is never left
\* waiting for a promise that cannot settle.
C9_ApplicationErrorForcesExit ==
  /\ (ehReturn.has /\ ehReturn.error.cls = "ApplicationError")
       => /\ ~ehReturn.continues
          /\ ehReturn.call = [fn |-> "_forceExit", code |-> 1]
          /\ errorHandler.isShuttingDown
  /\ \A c \in ChainIds : InFlight(c, "ApplicationError") => ~CircularWait(c)

\* C10: the failure of a secondary log started by a handleError call is caught
\* and printed by that call: it never makes a second handleError call start a
\* secondary log of its own inside the first one.
C10_FailedSecondaryLogOnlyPrinted ==
  \A c \in ChainIds :
    Cardinality({i \in 1..Len(chains[c]) :
                   chains[c][i].fn = "handleError" /\ chains[c][i].pc = "logging"}) <= 1

\* C11: a handleError call for an error classified as fatal (ApplicationError,
\* ShutdownError, or AuthenticationError unless exitOnAuthError is false) can
\* always go on to its exit call: its final log never leaves it waiting for
\* a promise that cannot settle.
C11_FatalHandlingReachesExit ==
  LET Fatal == {"ApplicationError", "ShutdownError"}
                 \cup (IF config.exitOnAuthError # "false"
                       THEN {"AuthenticationError"} ELSE {})
  IN \A c \in ChainIds :
       (\E cls \in Fatal : InFlight(c, cls)) => ~CircularWait(c)

\* C12: a handleError call never ends by throwing: its promise is never rejected.
C12_HandleErrorNeverThrows ==
  ehReturn.has => ~ehReturn.threw

\* C13: a step that calls _forceExit(code) while an exit timer armed by
\* _scheduleExit is pending clears that timer and calls process.exit(code).
C13_ForcedExitWins ==
  [][(/\ ehReturn'.call.fn = "_forceExit"
      /\ \E tm \in timers : tm.by = "errorHandler")
     => /\ ~(\E tm \in timers' : tm.by = "errorHandler")
        /\ exits' = Append(exits, [code |-> ehReturn'.call.code, by |-> "errorHandler"])]_vars

\* C14: isShuttingDown, once true, stays true in every step that is not a
\* cancelShutdown() call.
C14_ShutdownIsPermanent ==
  [][(errorHandler.isShuttingDown /\ ~errorHandler'.isShuttingDown)
     => ehReturn'.op = "cancelShutdown"]_vars

\* C15: right after a cleanup() call no process listener of this handler is
\* registered any more and no exit timer of the handler is pending.
C15_CleanupDetachesEverything ==
  ehReturn.op = "cleanup"
    => /\ hooks = {}
       /\ ~(\E tm \in timers : tm.by = "errorHandler")

\* C16: a SIGTERM or SIGINT hook that fired while the handler was not
\* shutting down ends, once its log has settled, by arming the graceful exit
\* with code 0: nothing has committed another exit in between.
C16_SignalEndsGracefully ==
  (ehReturn.op = "handleShutdownSignal" /\ ehReturn.firedRunning)
    => /\ ehReturn.call = [fn |-> "_scheduleExit", code |-> 0]
       /\ ~ehReturn.wasShuttingDown
       /\ \E tm \in timers : tm.by = "errorHandler" /\ tm.code = 0 /\ tm.due = now + 2000

\* C17: when the uncaughtException hook has finished (its log attempt has
\* settled), the process has exited at once with code 1 through the handler's
\* forced exit, whatever the configuration and the state of the handler: the
\* last exit recorded is the handler's with code 1 and no exit timer of the
\* handler is left pending
C17_UncaughtExceptionForcesExit ==
  ehReturn.op = "handleUncaughtException"
    => /\ ehReturn.call = [fn |-> "_forceExit", code |-> 1]
       /\ exits # <<>>
       /\ exits[Len(exits)] = [code |-> 1, by |-> "errorHandler"]
       /\ ~(\E tm \in timers : tm.by = "errorHandler")

\* C18: across all error paths (the branches of handleError, the global hooks
\* and Logger._handleCriticalLog) at most one termination action is ever armed
\* or executed: unless a shutdown was cancelled, the exit timers pending and
\* the process.exit calls made number at most one together
C18_AtMostOneTermination ==
  ~everCancelled => Cardinality(timers) + Len(exits) <= 1

\* C19 as stated: a critical log of the application made with the override
\* exitOnCritical = false, begun while no exit was armed or made, has caused
\* no exit when it settles (no exit timer pending, no process.exit made), even
\* when config.exitOnCritical is true; one made without the override and with
\* config.exitOnCritical true has led to process.exit(1)
C19_CriticalOverrideDecidesExit ==
  (ehReturn.op = "log" /\ ehReturn.log.level = "critical" /\ ehReturn.log.idle)
    => /\ ehReturn.log.exitOnCritical = "false" => (timers = {} /\ exits = <<>>)
       /\ (ehReturn.log.exitOnCritical = "null" /\ config.exitOnCritical)
            => \/ \E tm \in timers : tm.code = 1
               \/ \E i \in 1..Len(exits) : exits[i].code = 1

\* C20: a log call of the application with an invalid entry (invalid level,
\* missing or non-string message, bad context, content, tags or metadata),
\* begun while no exit was armed or made, rejects with the ValidationError,
\* without apiClient.log having been called and without any shutdown action
\* (no exit timer armed, no process.exit made)
C20_InvalidEntryRejected ==
  (/\ ehReturn.op = "log"
   /\ ~ehReturn.log.valid
   /\ ehReturn.log.idle
   /\ logger.initializationPromise # "rejected")
    => /\ ehReturn.error = ValidationErr
       /\ ~ehReturn.log.sent
       /\ timers = {}
       /\ exits = <<>>

\* C23: calculateOptimalTiming(n) answers canProceed with delay 0 and batch
\* size n when n <= safe = min(remainingRequests, availableTokens) of the
\* refreshed limiter. Otherwise it answers not canProceed with batchSize the
\* largest integer b with b <= 0.8 * safe; and for b > 0, batches the least
\* integer k with k * b >= n, delay the least integer number of milliseconds in
\* which b tokens are refilled, and totalTime = batches * delay. For b = 0 the
\* quotient n / b is Infinity and the product with the zero delay is NaN.
C23_OptimalTimingFormulas ==
  rlResult.op = "calculateOptimalTiming"
    => LET n == rlResult.cost
           tm == rlResult.timing
           hour == now \div HourMs
           remaining == rateLimiter.maxRequests - MapGet(rateLimiter.requestCounts, hour)
           available == CHOOSE a \in 0..rateLimiter.burstSize :
                           a * HourMs <= rateLimiter.tokens
                           /\ rateLimiter.tokens < (a + 1) * HourMs
           safe == Min(remaining, available)
           b == tm.batchSize
       IN IF n <= safe
          THEN tm.canProceed /\ tm.delay = 0 /\ tm.batchSize = n
          ELSE /\ ~tm.canProceed
               /\ 10 * b <= 8 * safe /\ 8 * safe < 10 * (b + 1)
               /\ b > 0 => /\ tm.batches * b >= n /\ (tm.batches - 1) * b < n
                           /\ tm.delay * rateLimiter.maxRequests >= b * HourMs
                           /\ (tm.delay - 1) * rateLimiter.maxRequests < b * HourMs
                           /\ tm.totalTime = tm.batches * tm.delay
               /\ b = 0 => tm.batches = Infinity /\ tm.delay = 0 /\ tm.totalTime = NaN

\* the example of the specification: n = 250 with 100 requests remaining and 10
\* tokens available gives batches of 8, 32 of them
C23_Witness ==
  /\ rlResult.op = "calculateOptimalTiming"
  /\ rlResult.cost = 250
  /\ rateLimiter.maxRequests - MapGet(rateLimiter.requestCounts, now \div HourMs) = 100
  /\ rateLimiter.tokens = 10 * HourMs
  /\ ~rlResult.timing.canProceed
  /\ rlResult.timing.batchSize = 8
  /\ rlResult.timing.batches = 32

\* C25: a checkRequest call that is rejected (hourly cap or burst limit)
\* changes only stats.blockedRequests (+1, no retry) and stats.lastBlockedAt
\* (= now), apart from the lazy refill and the purge: no token is consumed (the
\* bucket holds the refilled amount), the counts and peaks kept are the same,
\* totalRequests, hasWarned and the configuration are the same; and a burst
\* rejection carries limit = burstSize, remaining = floor(tokens) and
\* resetTime = now + (cost - tokens) / refillRate in whole milliseconds
C25_RejectionOnlyCountsBlocked ==
  [][(rlResult'.op = "checkRequest" /\ rlResult'.outcome \in {"hourly", "burst"})
     => LET old == rateLimiter
            new == rateLimiter'
            err == rlResult'.error
            missing == rlResult'.cost * HourMs - new.tokens
        IN /\ new.stats.blockedRequests = old.stats.blockedRequests + 1
           /\ new.stats.lastBlockedAt = now
           /\ new.stats.totalRequests = old.stats.totalRequests
           /\ new.tokens >= old.tokens
           /\ new.tokens = Min(old.burstSize * HourMs,
                               old.tokens + (now - old.lastRefill) * old.maxRequests)
           /\ DOMAIN new.requestCounts \subseteq DOMAIN old.requestCounts
           /\ \A h \in DOMAIN new.requestCounts : new.requestCounts[h] = old.requestCounts[h]
           /\ MapGet(new.requestCounts, now \div HourMs)
                = MapGet(old.requestCounts, now \div HourMs)
           /\ DOMAIN new.stats.hourlyPeaks \subseteq DOMAIN old.stats.hourlyPeaks
           /\ \A h \in DOMAIN new.stats.hourlyPeaks :
                 new.stats.hourlyPeaks[h] = old.stats.hourlyPeaks[h]
           /\ new.hasWarned = old.hasWarned
           /\ new.maxRequests = old.maxRequests
           /\ new.burstSize = old.burstSize
           /\ new.enabled = old.enabled
           /\ rlResult'.outcome = "burst"
                => /\ err.limit = old.burstSize
                   /\ err.remaining * HourMs <= new.tokens
                   /\ new.tokens < (err.remaining + 1) * HourMs
                   /\ (err.resetTime - now) * old.maxRequests <= missing
                   /\ missing < (err.resetTime - now + 1) * old.maxRequests]_vars

\* a burst rejection made while the bucket holds a fraction of a token, after
\* requests were admitted in the hour
C25_Witness ==
  /\ rlResult.op = "checkRequest"
  /\ rlResult.outcome = "burst"
  /\ rateLimiter.stats.blockedRequests >= 1
  /\ rateLimiter.stats.lastBlockedAt = now
  /\ rateLimiter.stats.totalRequests >= 1
  /\ rateLimiter.tokens > 0
  /\ rlResult.error.resetTime > now

\* C26: getStatus() and calculateOptimalTiming() never mutate counts:
\* requestCounts, totalRequests, blockedRequests, lastBlockedAt, hourlyPeaks,
\* hasWarned and the configuration are unchanged, only tokens and lastRefill
\* are refreshed; and the getStatus calls made between checkRequest calls do
\* not change which checkRequest calls are admitted: every checkRequest has the
\* outcome it has on the limiter that was never asked for its status
C26_StatusIsPureRead ==
  [][/\ rlResult'.op \in {"getStatus", "calculateOptimalTiming"}
          => /\ rateLimiter'.requestCounts = rateLimiter.requestCounts
             /\ rateLimiter'.stats = rateLimiter.stats
             /\ rateLimiter'.hasWarned = rateLimiter.hasWarned
             /\ rateLimiter'.maxRequests = rateLimiter.maxRequests
             /\ rateLimiter'.burstSize = rateLimiter.burstSize
             /\ rateLimiter'.enabled = rateLimiter.enabled
             /\ rateLimiter'.lastCleanup = rateLimiter.lastCleanup
             /\ rateLimiter'.lastRefill = now
     /\ rlResult'.op = "checkRequest"
          => rlResult'.outcome = rlResult'.shadowOutcome]_vars

\* C27: stats.totalRequests and stats.blockedRequests never decrease except
\* through reset(); every checkRequest call increments exactly one of them by
\* exactly 1 (totalRequests when it is admitted or limiting is disabled,
\* blockedRequests when it is rejected); and their sum is the number of
\* checkRequest calls since construction or the last reset()
C27_CountersCountEveryCall ==
  [][LET old == rateLimiter.stats
         new == rateLimiter'.stats
     IN /\ rlResult'.op # "reset"
             => /\ new.totalRequests >= old.totalRequests
                /\ new.blockedRequests >= old.blockedRequests
        /\ rlResult'.op = "checkRequest"
             => IF rlResult'.outcome = "ok"
                THEN /\ new.totalRequests = old.totalRequests + 1
                     /\ new.blockedRequests = old.blockedRequests
                ELSE /\ new.blockedRequests = old.blockedRequests + 1
                     /\ new.totalRequests = old.totalRequests
        /\ (rlResult'.op = "checkRequest" /\ ~rlResult'.enabled)
             => rlResult'.outcome = "ok"
        /\ new.totalRequests + new.blockedRequests = rlCalls']_vars

\* a disabled limiter has just let a request through after it had admitted one
\* and rejected one
C27_Witness ==
  /\ rlResult.op = "checkRequest"
  /\ ~rlResult.enabled
  /\ rateLimiter.stats.totalRequests = 2
  /\ rateLimiter.stats.blockedRequests = 1
  /\ rlCalls = 3

\* C28: the 80% usage warning is signalled (_checkWarningThreshold returns
\* true) at most once between consecutive reconfigurations: hasWarned, once
\* set, is cleared only by updateConfig or reset, also across hour rollover,
\* and while it is set no checkRequest signals the warning again
C28_WarnsOncePerConfiguration ==
  [][/\ (rateLimiter.hasWarned /\ ~rateLimiter'.hasWarned)
          => rlResult'.op \in {"updateConfig", "reset"}
     /\ rlWarnings' > rlWarnings
          => /\ rlResult'.op = "checkRequest"
             /\ rlResult'.outcome = "ok"
             /\ ~rateLimiter.hasWarned
             /\ rateLimiter'.hasWarned
     /\ rlWarnings' <= 1]_vars

\* a request is admitted in a later hour that again reaches 80% of the quota,
\* as the first hour did: the warning of the first hour stays the only one
C28_Witness ==
  /\ rlResult.op = "checkRequest"
  /\ rlResult.outcome = "ok"
  /\ now >= HourMs
  /\ rateLimiter.hasWarned
  /\ rlWarnings = 1
  /\ 10 * MapGet(rateLimiter.requestCounts, now \div HourMs) >= 8 * rateLimiter.maxRequests
  /\ 10 * MapGet(rateLimiter.requestCounts, 0) >= 8 * rateLimiter.maxRequests

\* C29: a ShutdownError passed to handleError is always fatal and its embedded
\* exit code is honored: once handleError has returned for a ShutdownError
\* that carries an exit code, called while the handler was not shutting down,
\* it has returned false and has force-exited the process with exactly
\* error.exitCode, for every code including 0
C29_ShutdownErrorHonorsExitCode ==
  (/\ ehReturn.has
   /\ ehReturn.error.cls = "ShutdownError"
   /\ ehReturn.error.exitCode # None
   /\ ~ehReturn.wasShuttingDown)
    => /\ ~ehReturn.continues
       /\ ehReturn.call = [fn |-> "_forceExit", code |-> ehReturn.error.exitCode]
       /\ exits # <<>>
       /\ exits[Len(exits)] = [code |-> ehReturn.error.exitCode, by |-> "errorHandler"]

\* C30: an AuthenticationError passed to handleError is fatal unless
\* config.exitOnAuthError is false. Once handleError has returned for it,
\* called while the handler was not shutting down: with the flag unset or true
\* it has returned false and the graceful exit with code 1 is scheduled (the
\* shutdown timer is pending, due after the shutdown delay); with the flag
\* false it has returned true and no shutdown action was taken. And the call
\* always gets to return: it is never left waiting for a promise that cannot
\* settle.
C30_AuthenticationErrorFatalUnlessConfigured ==
  /\ (/\ ehReturn.has
      /\ ehReturn.error.cls = "AuthenticationError"
      /\ ~ehReturn.wasShuttingDown)
       => IF config.exitOnAuthError # "false"
          THEN /\ ~ehReturn.continues
               /\ ehReturn.call = [fn |-> "_scheduleExit", code |-> 1]
               /\ errorHandler.isShuttingDown
               /\ \E tm \in timers : /\ tm.by = "errorHandler"
                                     /\ tm.code = 1
                                     /\ tm.due = now + ShutdownDelayMs
          ELSE /\ ehReturn.continues
               /\ ehReturn.call.fn = "none"
               /\ ~errorHandler.isShuttingDown
               /\ ~(\E tm \in timers : tm.by = "errorHandler")
               /\ ~(\E i \in 1..Len(exits) : exits[i].by = "errorHandler")
  /\ \A c \in ChainIds : InFlight(c, "AuthenticationError") => ~CircularWait(c)

\* ------------------------------------------------------------------------
\* The simple API logger driven on its own: SpecSL
\* ------------------------------------------------------------------------

\* the rate limiter, the Logger and its ErrorHandler constructed and not used
CoreIdle ==
  /\ now = 0
  /\ ticks = 0
  /\ rateLimiter = RateLimiterNew(MinLogsPerHour, None, TRUE, 0)
  /\ rlShadow = rateLimiter
  /\ rlCalls = 0
  /\ rlWarnings = 0
  /\ rlResult = NoResult
  /\ rlAdmitted = EmptyMap
  /\ rlRun = NoRun
  /\ rlStatus = NoStatus
  /\ config = [exitOnCritical |-> TRUE, exitOnAuthError |-> "unset",
               enableGlobalErrorHandling |-> "false"]
  /\ hooks = {}
  /\ errorHandler = ErrorHandlerNew
  /\ logger = LoggerNew
  /\ timers = {}
  /\ nextTimer = 1
  /\ exits = <<>>
  /\ chains = [c \in ChainIds |-> <<>>]
  /\ ops = 0
  /\ ehReturn = NoReturn
  /\ critHist = <<>>
  /\ exitCalls = 0
  /\ everCancelled = FALSE

ApiCallIds == 1..MaxApiCalls
\* inputs tried.  retries: options.retries; levels, messages, contexts: the
\* arguments of log(), a context being null, a plain object or an object
\* JSON.stringify throws on; outcomes: what the API answers to one HTTP
\* request; shortcuts: the level shortcuts called
ApiInputs ==
  [retries |-> {1, 3},
   levels |-> {Str("info"), Str("Error"), Str("debug"), Str(""),
               [type |-> "undefined", value |-> ""], [type |-> "number", value |-> "42"]},
   messages |-> {Str("hello"), Str(""), [type |-> "number", value |-> "42"]},
   contexts |-> {"null", "object", "circular"},
   outcomes |-> {"ok", "apiError", "network", "timeout", "empty"},
   shortcuts |-> {"success", "info", "warn", "error", "critical"}]

SLInit ==
  /\ CoreIdle
  /\ apiClient = ApiClientNew(<<>>)
  /\ queueLogger = QueueLoggerNew(10)
  /\ batchLogger = BatchLoggerNew(10)
  /\ emitterLogger = EmitterLoggerNew(100)
  /\ \E r \in ApiInputs.retries : apiLogger = ApiLoggerNew(r)

\* a caller invokes log(level, message, context): the function runs up to
\* its first await, or to its return when the validation throws
ApiLog(c, level, message, context) ==
  /\ apiLogger.calls[c].pc = "idle"
  /\ LET e == ApiLogPrepare(level, message, context)
         lg == [apiLogger EXCEPT !.report = NoReport] IN
       apiLogger' = IF e # "none"
                      THEN ApiLogCatch(lg, c, e)
                      ELSE [lg EXCEPT !.calls[c].pc = "request",
                                      !.calls[c].attempt = 1]
  /\ UNCHANGED <<now, ticks, rlVars, ehVars, batchLogger, emitterLogger, apiClient, queueLogger>>

\* a caller invokes success(), info(), warn(), error() or critical()
ApiShortcut(c, method, message, context) ==
  ApiLog(c, Str(IF method = "warn" THEN "warning" ELSE method), message, context)

\* the HTTP request of one attempt completes: _makeRequest returns, retries
\* or throws into the catch block of log()
ApiRequestDone(c, outcome) ==
  /\ apiLogger.calls[c].pc = "request"
  /\ LET \* the message of the Error _performRequest rejects with, "none"
         \* when it resolves
         e == CASE outcome = "ok" -> "none"
                [] outcome = "apiError" -> "API request failed"
                [] outcome = "network" -> "Network error"
                [] outcome = "timeout" -> "Request timeout"
                [] outcome = "empty" -> "Empty response from API"
         lg == [apiLogger EXCEPT !.report = NoReport] IN
       apiLogger' = IF e = "none"
                      THEN ApiLogSucceed(lg, c)
                    ELSE IF lg.calls[c].attempt < lg.retries
                      THEN [lg EXCEPT !.calls[c].pc = "sleep"]
                    ELSE ApiLogCatch(lg, c, e)
  /\ UNCHANGED <<now, ticks, rlVars, ehVars, batchLogger, emitterLogger, apiClient, queueLogger>>

\* the retry delay of _makeRequest elapses
ApiSleepDone(c) ==
  /\ apiLogger.calls[c].pc = "sleep"
  /\ apiLogger' = [apiLogger EXCEPT !.report = NoReport,
                                    !.calls[c].pc = "request",
                                    !.calls[c].attempt = @ + 1]
  /\ UNCHANGED <<now, ticks, rlVars, ehVars, batchLogger, emitterLogger, apiClient, queueLogger>>

\* a caller invokes getStats()
ApiGetStats ==
  /\ apiLogger' = [apiLogger EXCEPT !.report = getStats(apiLogger)]
  /\ UNCHANGED <<now, ticks, rlVars, ehVars, batchLogger, emitterLogger, apiClient, queueLogger>>

SLNext ==
  \/ \E c \in ApiCallIds, level \in ApiInputs.levels, message \in ApiInputs.messages,
        context \in ApiInputs.contexts : ApiLog(c, level, message, context)
  \/ \E c \in ApiCallIds, method \in ApiInputs.shortcuts,
        message \in ApiInputs.messages, context \in ApiInputs.contexts :
          ApiShortcut(c, method, message, context)
  \/ \E c \in ApiCallIds, outcome \in ApiInputs.outcomes : ApiRequestDone(c, outcome)
  \/ \E c \in ApiCallIds : ApiSleepDone(c)
  \/ ApiGetStats

SpecSL == SLInit /\ [][SLNext]_vars

\* C24: log() and the level shortcuts never reject: every call that
\* completed is fulfilled, a call whose try block threw (invalid level or
\* message, or the request failing on the last attempt) is fulfilled with
\* {success: false, error: <the message thrown>}, totalLogs counts the
\* completed calls and totalLogs = successfulLogs + failedLogs, in the
\* object and in every getStats() report.
C24_LogNeverRejectsAndCountsAddUp ==
  /\ apiLogger.stats.totalLogs
       = apiLogger.stats.successfulLogs + apiLogger.stats.failedLogs
  /\ apiLogger.stats.totalLogs
       = Cardinality({c \in ApiCallIds : apiLogger.calls[c].pc = "settled"})
  /\ apiLogger.stats.failedLogs
       = Cardinality({c \in ApiCallIds : apiLogger.calls[c].failure # "none"})
  /\ \A c \in ApiCallIds :
       LET call == apiLogger.calls[c] IN
         /\ call.settled # "rejected"
         /\ call.pc = "settled" => call.settled = "fulfilled"
         /\ (call.pc = "settled" /\ call.failure # "none")
              => call.value = [success |-> FALSE, error |-> call.failure]
         /\ (call.pc = "settled" /\ call.failure = "none") => call.value.success
  /\ apiLogger.report # NoReport
       => apiLogger.report.totalLogs
            = apiLogger.report.successfulLogs + apiLogger.report.failedLogs

\* one call succeeded, another failed on its third and last attempt, and
\* getStats() reported both
C24_Witness ==
  /\ \E c, d \in ApiCallIds :
       /\ apiLogger.calls[c].pc = "settled" /\ apiLogger.calls[c].value.success
       /\ apiLogger.calls[d].pc = "settled"
       /\ apiLogger.calls[d].failure = "Network error"
       /\ apiLogger.calls[d].attempt = 3
  /\ apiLogger.report # NoReport
  /\ apiLogger.report.totalLogs = 2
  /\ apiLogger.report.successRate = 50

\* ------------------------------------------------------------------------
\* The batch logger driven on its own: SpecBL
\* ------------------------------------------------------------------------


BLInit ==
  /\ CoreIdle
  /\ apiClient = ApiClientNew(<<>>)
  /\ queueLogger = QueueLoggerNew(10)
  /\ apiLogger = ApiLoggerNew(3)
  /\ emitterLogger = EmitterLoggerNew(100)
  /\ \E n \in {2, 3} : batchLogger = BatchLoggerNew(n)

\* a caller invokes add()
BLAdd ==
  /\ batchLogger.added < MaxBatchAdds
  /\ batchLogger' = add(batchLogger, batchLogger.added + 1)
  /\ UNCHANGED <<now, ticks, rlVars, ehVars, apiLogger, emitterLogger, apiClient, queueLogger>>

\* a caller invokes flush()
BLFlush ==
  /\ batchLogger' = processBatch(batchLogger)
  /\ UNCHANGED <<now, ticks, rlVars, ehVars, apiLogger, emitterLogger, apiClient, queueLogger>>

\* the timer h set by add() fires: its callback is processBatch
BLTimerFire(h) ==
  /\ h \in batchLogger.armed
  /\ batchLogger' = processBatch([batchLogger EXCEPT !.armed = @ \ {h}])
  /\ UNCHANGED <<now, ticks, rlVars, ehVars, apiLogger, emitterLogger, apiClient, queueLogger>>

\* the Promise.all of one processBatch call settles, resolved or rejected:
\* the call goes on after its try/catch
BLSendDone ==
  /\ batchLogger.sending > 0
  /\ batchLogger' =
       IF batchLogger.batchTimer # None
       THEN [batchLogger EXCEPT !.sending = @ - 1,
                                !.armed = @ \ {batchLogger.batchTimer},
                                !.batchTimer = None]
       ELSE [batchLogger EXCEPT !.sending = @ - 1]
  /\ UNCHANGED <<now, ticks, rlVars, ehVars, apiLogger, emitterLogger, apiClient, queueLogger>>

BLNext ==
  \/ BLAdd
  \/ BLFlush
  \/ \E h \in 1..MaxBatchAdds : BLTimerFire(h)
  \/ BLSendDone

SpecBL == BLInit /\ [][BLNext]_vars

\* C22: every log passed to add() is handed to log() with no further add()
\* and no flush(): whenever the batch holds a log and no batch send is in
\* progress, a timer whose callback sends the batch is armed.
C22_NoStrandedLog ==
  (Len(batchLogger.batch) > 0 /\ batchLogger.sending = 0)
    => batchLogger.armed # {}

\* ------------------------------------------------------------------------
\* The event-emitter Logger driven on its own: SpecApp
\* ------------------------------------------------------------------------


AppInit ==
  /\ CoreIdle
  /\ apiClient = ApiClientNew(<<>>)
  /\ queueLogger = QueueLoggerNew(10)
  /\ apiLogger = ApiLoggerNew(3)
  /\ batchLogger = BatchLoggerNew(10)
  /\ \E n \in {2, 3} : emitterLogger = EmitterLoggerNew(n)

\* process.exit has not been called
AppAlive == emitterLogger.exits = <<>>

\* a caller invokes queueLog()
AppQueueLog(valid) ==
  /\ AppAlive
  /\ emitterLogger.queued < MaxQueued
  /\ emitterLogger' = queueLog(emitterLogger,
                               [id |-> emitterLogger.queued + 1, valid |-> valid])
  /\ UNCHANGED <<now, ticks, rlVars, ehVars, apiLogger, batchLogger, apiClient, queueLogger>>

\* the interval of startBatchProcessing fires
AppBatchTimerFire ==
  /\ AppAlive
  /\ emitterLogger.batchTimer
  /\ emitterLogger' = IF ~emitterLogger.isShuttingDown
                        THEN flushLogs(emitterLogger)
                        ELSE emitterLogger
  /\ UNCHANGED <<now, ticks, rlVars, ehVars, apiLogger, batchLogger, apiClient, queueLogger>>

\* makeRequestWithRetry of the log id settles: sendLog goes on after its await
AppRequestDone(id, ok) ==
  /\ AppAlive
  /\ id \in emitterLogger.inFlight
  /\ emitterLogger' =
       IF ok
         THEN [emitterLogger EXCEPT !.inFlight = @ \ {id},
                                    !.metrics.logsSent = @ + 1,
                                    !.metrics.logsSuccess = @ + 1]
         ELSE [emitterLogger EXCEPT !.inFlight = @ \ {id},
                                    !.metrics.logsError = @ + 1]
  /\ UNCHANGED <<now, ticks, rlVars, ehVars, apiLogger, batchLogger, apiClient, queueLogger>>

\* a caller invokes shutdown(), or SIGTERM, SIGINT or SIGUSR2 arrives
\* (signal): the handler and shutdown() run up to the await of flushLogs()
AppShutdown(signal) ==
  /\ AppAlive
  /\ LET lg == emitterLogger IN
       emitterLogger' =
         IF lg.isShuttingDown
           THEN IF signal THEN [lg EXCEPT !.exits = Append(@, 1)] ELSE lg
           ELSE LET down == [lg EXCEPT !.isShuttingDown = TRUE, !.batchTimer = FALSE,
                                       !.bySignal = signal]
                    flushed == flushLogs(down) IN
                  [flushed EXCEPT !.shutdown = "flushing",
                                  !.waits = flushed.inFlight \ down.inFlight]
  /\ UNCHANGED <<now, ticks, rlVars, ehVars, apiLogger, batchLogger, apiClient, queueLogger>>

\* the promises flushLogs() awaits have settled: shutdown() passes its final
\* log (id 0) to sendLog, which returns null at once because isShuttingDown
\* is set, emits 'shutdown' and returns; the signal handler then calls
\* process.exit(0)
AppShutdownResume ==
  /\ AppAlive
  /\ emitterLogger.shutdown = "flushing"
  /\ emitterLogger.waits \cap emitterLogger.inFlight = {}
  /\ LET final == sendLog(emitterLogger, [id |-> 0, valid |-> TRUE]) IN
       emitterLogger' =
         [final EXCEPT !.shutdown = "done", !.waits = {},
                       !.exits = IF final.bySignal THEN Append(@, 0) ELSE @]
  /\ UNCHANGED <<now, ticks, rlVars, ehVars, apiLogger, batchLogger, apiClient, queueLogger>>

AppNext ==
  \/ \E valid \in BOOLEAN : AppQueueLog(valid)
  \/ AppBatchTimerFire
  \/ \E id \in 1..MaxQueued, ok \in BOOLEAN : AppRequestDone(id, ok)
  \/ \E signal \in BOOLEAN : AppShutdown(signal)
  \/ AppShutdownResume

SpecApp == AppInit /\ [][AppNext]_vars

\* C21: when a graceful shutdown has completed (shutdown() has returned,
\* and the signal handler has called process.exit(0)), every valid log that
\* queueLog accepted has been passed to the API request; none was skipped
\* or left in the queue.
C21_QueuedLogsSentBeforeShutdownCompletes ==
  emitterLogger.shutdown = "done"
    => \A log \in emitterLogger.accepted :
         log.valid => /\ log.id \in emitterLogger.requested
                      /\ log.id \notin emitterLogger.skipped

\* C31: criticalErrorCount is always the length of criticalErrorTimes, and
\* while the clock still shows the time of the last _trackCriticalError the
\* retained times are exactly the tracked times less than criticalErrorWindow
\* old, the last of them being that call's own time.
C31_CriticalCountIsRetainedLength ==
  /\ errorHandler.criticalErrorCount = Len(errorHandler.criticalErrorTimes)
  /\ (critHist # <<>> /\ critHist[Len(critHist)] = now)
       => /\ \A i \in 1..Len(errorHandler.criticalErrorTimes) :
               /\ now - errorHandler.criticalErrorTimes[i] < CriticalErrorWindow
               /\ now - errorHandler.criticalErrorTimes[i] >= 0
          /\ errorHandler.criticalErrorTimes
               = SelectSeq(critHist, LAMBDA time : now - time < CriticalErrorWindow)

\* a _trackCriticalError call has just dropped an entry exactly one window old
C31_Witness ==
  /\ critHist # <<>>
  /\ critHist[Len(critHist)] = now
  /\ critHist[1] = now - CriticalErrorWindow
  /\ errorHandler.criticalErrorCount = Len(errorHandler.criticalErrorTimes)
  /\ errorHandler.criticalErrorCount < Len(critHist)

\* n checkRequest(1) calls made one after the other at time t on the limiter
\* rl are all admitted
RECURSIVE AllAdmitted(_, _, _)
AllAdmitted(rl, t, n) ==
  IF n <= 0 THEN TRUE
  ELSE LET r == checkRequest(rl, t, 1)
       IN r.outcome = "ok" /\ AllAdmitted(r.rl, t, n - 1)

\* C37: in the state calculateOptimalTiming(n) leaves when it returns
\* canProceed = true, n checkRequest(1) calls made at once, or later within
\* the same hour bucket, are all admitted.
C37_CanProceedMeansAdmitted ==
  (rlResult.op = "calculateOptimalTiming" /\ rlResult.timing.canProceed)
    => \A d \in {0, 1000, 900000} :
         (now + d) \div HourMs = now \div HourMs
           => AllAdmitted(rateLimiter, now + d, rlResult.cost)

\* calculateOptimalTiming(2) returned canProceed = true on a limiter that
\* could not have admitted a third request
C37_Witness ==
  /\ rlResult.op = "calculateOptimalTiming"
  /\ rlResult.timing.canProceed
  /\ rlResult.cost = 2
  /\ rateLimiter.enabled
  /\ AllAdmitted(rateLimiter, now, 2)
  /\ ~AllAdmitted(rateLimiter, now, 3)

\* C38: a plan with canProceed = false is well formed: batchSize >= 1,
\* batches a finite positive integer, batches * batchSize >= n and delay > 0.
C38_BatchPlanWellFormed ==
  (rlResult.op = "calculateOptimalTiming" /\ ~rlResult.timing.canProceed)
    => /\ rlResult.timing.batchSize >= 1
       /\ rlResult.timing.batches # Infinity
       /\ rlResult.timing.batches # NaN
       /\ rlResult.timing.batches >= 1
       /\ rlResult.timing.batches * rlResult.timing.batchSize >= rlResult.cost
       /\ rlResult.timing.delay > 0

\* C36: a log is handed to the transport only by an initialized logger: a
\* log() call that awaits apiClient.log, or has settled after calling it, has
\* found isInitialized true.
C36_TransportOnlyWhenInitialized ==
  /\ \A c \in ChainIds : \A i \in 1..Len(chains[c]) :
       (chains[c][i].fn = "log" /\ chains[c][i].pc = "sending")
         => logger.isInitialized
  /\ (ehReturn.op = "log" /\ ehReturn.log.sent) => logger.isInitialized

\* C39: the client statistics add up, totalLogs = successfulLogs + failedLogs
\* + rateLimitedLogs, and rateLimitedLogs is the number of log calls the rate
\* limiter rejected (every checkRequest is made by a log call).
C39_ClientStatsAddUp ==
  /\ logger.stats.totalLogs
       = logger.stats.successfulLogs + logger.stats.failedLogs
           + logger.stats.rateLimitedLogs
  /\ logger.stats.rateLimitedLogs = rateLimiter.stats.blockedRequests

\* C40: the transport is called only for admitted requests.  In every step: a
\* log() call that starts awaiting apiClient.log made, in that step, a
\* checkRequest that was admitted (totalRequests + 1, nothing blocked) for a
\* valid entry; a log() call with an invalid entry leaves the rate limiter
\* untouched; when checkRequest rejects, no log() call starts awaiting the
\* transport; and totalRequests never decreases, so the number of transport
\* calls never exceeds it.
C40_TransportOnlyForAdmitted ==
  [][ LET Sending(ch, c, i) == /\ i <= Len(ch[c])
                               /\ ch[c][i].fn = "log"
                               /\ ch[c][i].pc = "sending"
          Starts(c, i) == Sending(chains', c, i) /\ ~Sending(chains, c, i)
      IN /\ \A c \in ChainIds : \A i \in 1..MaxDepth :
              Starts(c, i)
                => /\ chains'[c][i].valid
                   /\ chains'[c][i].sent
                   /\ rateLimiter'.stats.totalRequests
                        = rateLimiter.stats.totalRequests + 1
                   /\ rateLimiter'.stats.blockedRequests
                        = rateLimiter.stats.blockedRequests
         /\ \A c \in ChainIds :
              (/\ Running(c, "log", "initialize")
               /\ chains'[c] # chains[c]
               /\ ~Top(c).valid)
                => rateLimiter' = rateLimiter
         /\ rateLimiter'.stats.blockedRequests # rateLimiter.stats.blockedRequests
              => \A c \in ChainIds : \A i \in 1..MaxDepth : ~Starts(c, i)
         /\ rateLimiter'.stats.totalRequests >= rateLimiter.stats.totalRequests
    ]_vars

\* a log was handed to the transport after an admitted checkRequest, and the
\* rate limiter has rejected another log
C40_Witness ==
  /\ \E c \in ChainIds : \E i \in 1..Len(chains[c]) :
       chains[c][i].fn = "log" /\ chains[c][i].sent
  /\ rateLimiter.stats.totalRequests >= 1
  /\ rateLimiter.stats.blockedRequests >= 1

\* ------------------------------------------------------------------------
\* Configuration and ApiClient.makeRequest driven on their own: SpecAC
\* ------------------------------------------------------------------------

\* new Logger(options) has returned: validateConfig accepted the options,
\* normalizeConfig made the config and the ApiClient was built from it
ACInit ==
  /\ CoreIdle
  /\ apiLogger = ApiLoggerNew(3)
  /\ batchLogger = BatchLoggerNew(10)
  /\ emitterLogger = EmitterLoggerNew(100)
  /\ queueLogger = QueueLoggerNew(10)
  /\ \E full \in [retries : {0, 1, 5, 11}, timeout : {999, 60000},
                  maxLogsPerHour : {100}, baseUrl : {"", "https://h/", "h"},
                  debug : {FALSE}] :
       \E provided \in SUBSET {"retries", "timeout", "maxLogsPerHour", "baseUrl", "debug"} :
         LET options == [k \in provided |-> full[k]] IN
           /\ validateConfig(options)
           /\ apiClient = ApiClientNew(options)

\* a caller invokes makeRequest(action, params): the first HTTP request is sent
ACMakeRequest ==
  /\ apiClient.pc \in {"idle", "returned", "thrown"}
  /\ apiClient.requests < MaxRequests
  /\ apiClient' = [apiClient EXCEPT
       !.requests = @ + 1,
       !.pc = "http",
       !.retryCount = 0,
       !.attempts = 1,
       !.delays = <<>>,
       !.retried = {},
       !.lastError = [cls |-> "none", statusCode |-> None],
       !.result = [kind |-> "none", error |-> [cls |-> "none", statusCode |-> None]]]
  /\ UNCHANGED <<now, ticks, rlVars, ehVars, apiLogger, batchLogger, emitterLogger,
                 queueLogger>>

\* the HTTP request of the current attempt settles.  error.cls = "none": a
\* well-formed successful response, makeRequest returns it.  Otherwise the
\* try block throws error (as _transformError / _handleApiError made it, or
\* the NetworkError without status of an invalid response format) and the
\* catch block either starts the backoff delay or rethrows
ACHttpDone(error) ==
  /\ apiClient.pc = "http"
  /\ apiClient' =
       IF error.cls = "none"
       THEN [apiClient EXCEPT !.pc = "returned", !.result.kind = "returned"]
       ELSE IF _shouldRetry(apiClient.config, error, apiClient.retryCount)
       THEN [apiClient EXCEPT
               !.pc = "delay",
               !.lastError = error,
               !.retried = @ \cup {error},
               \* this.retryDelays[retryCount] || 4000
               !.delays = Append(@, IF apiClient.retryCount + 1 <= Len(apiClient.retryDelays)
                                    THEN apiClient.retryDelays[apiClient.retryCount + 1]
                                    ELSE 4000)]
       ELSE [apiClient EXCEPT
               !.pc = "thrown",
               !.lastError = error,
               !.result = [kind |-> "thrown", error |-> error]]
  /\ UNCHANGED <<now, ticks, rlVars, ehVars, apiLogger, batchLogger, emitterLogger,
                 queueLogger>>

\* the backoff delay is over: makeRequest(action, params, retryCount + 1)
\* sends the next HTTP request
ACDelayDone ==
  /\ apiClient.pc = "delay"
  /\ apiClient' = [apiClient EXCEPT !.pc = "http",
                                    !.retryCount = @ + 1,
                                    !.attempts = @ + 1]
  /\ UNCHANGED <<now, ticks, rlVars, ehVars, apiLogger, batchLogger, emitterLogger,
                 queueLogger>>

ACNext ==
  \/ ACMakeRequest
  \/ \E error \in {[cls |-> "NetworkError", statusCode |-> s] : s \in {None, 404, 429, 500}}
                    \cup {[cls |-> c, statusCode |-> None] :
                            c \in {"none", "AuthenticationError", "ValidationError",
                                   "RateLimitError"}} :
       ACHttpDone(error)
  \/ ACDelayDone

SpecAC == ACInit /\ [][ACNext]_vars

\* C34: makeRequest makes at most config.retries + 1 HTTP attempts and, when
\* it gives up, throws the error of the last attempt; every error it retried
\* is a NetworkError with no status code, a 5xx status or status 429
\* (never an AuthenticationError, ValidationError or RateLimitError); and the
\* delays it waited are 1000, 2000, 4000 and then 4000 ms, one before each
\* attempt after the first.
C34_BoundedRetriesWithBackoff ==
  /\ apiClient.attempts <= apiClient.config.retries + 1
  /\ apiClient.pc = "delay" => apiClient.attempts <= apiClient.config.retries
  /\ apiClient.pc = "thrown" => /\ apiClient.result.kind = "thrown"
                                /\ apiClient.result.error = apiClient.lastError
  /\ \A error \in apiClient.retried :
       /\ error.cls = "NetworkError"
       /\ \/ error.statusCode = None
          \/ error.statusCode >= 500
          \/ error.statusCode = 429
  /\ Len(apiClient.delays)
       = IF apiClient.pc = "delay" THEN apiClient.attempts
         ELSE IF apiClient.attempts = 0 THEN 0 ELSE apiClient.attempts - 1
  /\ \A i \in 1..Len(apiClient.delays) :
       apiClient.delays[i] = (IF i = 1 THEN 1000 ELSE IF i = 2 THEN 2000 ELSE 4000)

\* makeRequest gave up after retries + 1 = 6 attempts and five delays
C34_Witness ==
  /\ apiClient.pc = "thrown"
  /\ apiClient.config.retries = 5
  /\ apiClient.attempts = 6
  /\ apiClient.delays = <<1000, 2000, 4000, 4000, 4000>>
  /\ apiClient.lastError.cls = "NetworkError"

\* C35: every option value validateConfig accepts is in the normalized
\* config unchanged, and with retries = 0 a failed request is not retried.
C35_AcceptedOptionsPreserved ==
  /\ \A k \in DOMAIN apiClient.options : apiClient.config[k] = apiClient.options[k]
  /\ ("retries" \in DOMAIN apiClient.options /\ apiClient.options.retries = 0)
       => apiClient.attempts <= 1

\* ------------------------------------------------------------------------
\* The batching Logger driven on its own: SpecQL
\* ------------------------------------------------------------------------

\* mutant of _flushQueue: isProcessing is not tested
Mutant__flushQueue(lg) ==
  IF lg.logQueue = <<>>
  THEN lg
  ELSE LET n == Min(lg.batchSize, Len(lg.logQueue))
           batch == SubSeq(lg.logQueue, 1, n)
       IN [lg EXCEPT !.isProcessing = TRUE,
                     !.logQueue = SubSeq(@, n + 1, Len(@)),
                     !.cycles = Append(@, batch),
                     !.handed = Append(@, batch)]

\* _flushQueue() up to its await: unless a cycle is in progress or the queue
\* is empty, it sets isProcessing, splices the first batchSize entries off
\* the queue and calls _sendBatch(batch), which starts the HTTP request
_flushQueue(lg) ==
  IF lg.isProcessing \/ lg.logQueue = <<>>
  THEN lg
  ELSE LET n == Min(lg.batchSize, Len(lg.logQueue))
           batch == SubSeq(lg.logQueue, 1, n)
       IN [lg EXCEPT !.isProcessing = TRUE,
                     !.logQueue = SubSeq(@, n + 1, Len(@)),
                     !.cycles = Append(@, batch),
                     !.handed = Append(@, batch)]

QLInit ==
  /\ CoreIdle
  /\ apiLogger = ApiLoggerNew(3)
  /\ batchLogger = BatchLoggerNew(10)
  /\ emitterLogger = EmitterLoggerNew(100)
  /\ apiClient = ApiClientNew(<<>>)
  /\ \E batchSize \in {1, 2} : queueLogger = QueueLoggerNew(batchSize)

\* a caller invokes logInfo / logError / ...: _log creates the entry and
\* _addToQueue pushes it, counts it and flushes when the queue is full
QLLog ==
  /\ queueLogger.created < MaxEntries
  /\ LET pushed == [queueLogger EXCEPT !.created = @ + 1,
                                       !.logQueue = Append(@, queueLogger.created + 1),
                                       !.metrics.queued = @ + 1]
     IN queueLogger' = IF Len(pushed.logQueue) >= pushed.batchSize
                       THEN _flushQueue(pushed)
                       ELSE pushed
  /\ UNCHANGED <<now, ticks, rlVars, ehVars, apiLogger, batchLogger, emitterLogger,
                 apiClient>>

\* the interval timer of _startBatchProcessor fires and finds entries queued
\* and no cycle in progress (otherwise its callback does nothing)
QLTimerFire ==
  /\ queueLogger.batchInterval
  /\ queueLogger.logQueue # <<>>
  /\ ~queueLogger.isProcessing
  /\ queueLogger' = _flushQueue(queueLogger)
  /\ UNCHANGED <<now, ticks, rlVars, ehVars, apiLogger, batchLogger, emitterLogger,
                 apiClient>>

\* a caller invokes flush()
QLFlush ==
  /\ queueLogger' = _flushQueue(queueLogger)
  /\ UNCHANGED <<now, ticks, rlVars, ehVars, apiLogger, batchLogger, emitterLogger,
                 apiClient>>

\* the _sendBatch promise of cycle i settles (after the retries of
\* _makeRequest) and _flushQueue resumes: it updates the metrics and clears
\* isProcessing; a _gracefulShutdown awaiting this cycle resumes and prints
\* that all logs are flushed
QLSendDone(i, ok) ==
  /\ i \in 1..Len(queueLogger.cycles)
  /\ LET batch == queueLogger.cycles[i]
         resumes == queueLogger.shutdown = "flushing" /\ queueLogger.awaits = batch
     IN queueLogger' =
          [queueLogger EXCEPT
             !.metrics.sent = IF ok THEN @ + Len(batch) ELSE @,
             !.metrics.failed = IF ok THEN @ ELSE @ + Len(batch),
             !.metrics.queued = @ - Len(batch),
             !.isProcessing = FALSE,
             !.cycles = SubSeq(@, 1, i - 1) \o SubSeq(@, i + 1, Len(@)),
             !.shutdown = IF resumes THEN "done" ELSE @,
             !.awaits = IF resumes THEN <<>> ELSE @,
             !.left = IF resumes THEN queueLogger.logQueue ELSE @]
  /\ UNCHANGED <<now, ticks, rlVars, ehVars, apiLogger, batchLogger, emitterLogger,
                 apiClient>>

\* SIGINT or SIGTERM arrives: _gracefulShutdown clears the interval and, when
\* entries are queued, awaits one _flushQueue() call.  When that call
\* returned at once (a cycle is in progress) or the queue was empty, the
\* function goes on to print that all logs are flushed
QLShutdown ==
  /\ queueLogger.shutdown = "none"
  /\ LET flushed == _flushQueue(queueLogger)
         started == flushed.handed # queueLogger.handed
     IN queueLogger' =
          [flushed EXCEPT
             !.batchInterval = FALSE,
             !.shutdown = IF started THEN "flushing" ELSE "done",
             !.awaits = IF started THEN flushed.handed[Len(flushed.handed)] ELSE <<>>,
             !.left = IF started THEN @ ELSE flushed.logQueue]
  /\ UNCHANGED <<now, ticks, rlVars, ehVars, apiLogger, batchLogger, emitterLogger,
                 apiClient>>

QLNext ==
  \/ QLLog
  \/ QLTimerFire
  \/ QLFlush
  \/ \E i \in 1..MaxEntries, ok \in BOOLEAN : QLSendDone(i, ok)
  \/ QLShutdown

SpecQL == QLInit /\ [][QLNext]_vars

\* C32: at most one _flushQueue cycle is in flight at any time, and
\* isProcessing is set exactly while one is; no entry is in two batches
\* handed to _sendBatch, nor in a batch and still in the queue; and a step
\* taken while a cycle is in flight hands no batch to _sendBatch.
C32_OneFlushCycleInFlight ==
  /\ [](/\ Len(queueLogger.cycles) <= 1
        /\ queueLogger.isProcessing <=> queueLogger.cycles # <<>>
        /\ LET all == [i \in 1..Len(queueLogger.handed) + 1 |->
                         IF i <= Len(queueLogger.handed)
                         THEN {queueLogger.handed[i][j] :
                                 j \in 1..Len(queueLogger.handed[i])}
                         ELSE {queueLogger.logQueue[j] :
                                 j \in 1..Len(queueLogger.logQueue)}]
           IN \A i, k \in DOMAIN all : i # k => all[i] \cap all[k] = {})
  /\ [][queueLogger.isProcessing => queueLogger'.handed = queueLogger.handed]_vars

\* a second cycle is in flight while the queue is full: the queue-full
\* trigger of _addToQueue returned without sending
C32_Witness ==
  /\ Len(queueLogger.cycles) = 1
  /\ Len(queueLogger.handed) = 2
  /\ Len(queueLogger.logQueue) >= queueLogger.batchSize

\* C33: when _gracefulShutdown has completed (it printed that all logs are
\* flushed), the queue was empty at that moment: every entry queued until
\* then had been handed to _sendBatch.
C33_ShutdownLeavesNothingQueued ==
  queueLogger.shutdown = "done" => queueLogger.left = <<>>

====
